---- MODULE Spec2Model ----
(***************************************************************************)
(* A model of the vegas simulation engine: the lattice and its site        *)
(* indexing (src/src/vegas/lattice.rs), the site iterator and the          *)
(* construction of the flattened adjacency table; the spins and states     *)
(* (src/src/vegas/state.rs), the energy components                         *)
(* (src/src/vegas/energy.rs), the Metropolis integrator and the annealing  *)
(* loop of src/src/bin/main.rs.                                            *)
(*                                                                         *)
(* Representation.  Option<T> is a record with a flag: None, or Some(v).   *)
(* A Site is [cell |-> <<x, y, z>>, atom |-> a].  A coupling (f64 in the   *)
(* source) is an integer number of hundredths: every coupling of the       *)
(* built-in tables has two decimals, so Some(4.65) is Some(465) and the    *)
(* default 0.0 is 0.  Integers are unbounded: the bounds below keep every  *)
(* product far from the u32 / usize width of the source.  The f64 values   *)
(* of spins, energies and temperatures are binary floats of reduced        *)
(* precision, every operation rounding its exact result to the nearest     *)
(* float, ties to even (see "f64" below).                                  *)
(***************************************************************************)
EXTENDS Integers, Sequences, FiniteSets, TLC

VARIABLES
    latt,      \* the Lattice under study (immutable once built)
    call,      \* the last call of inside / index / tgts and what it returned
    iter,      \* the SiteIterator held by a caller of sites()
    emitted,   \* the Sites the iterator has yielded since sites() was called
    done,      \* whether that iterator has returned None
    prev,      \* the sequence yielded by the previous, finished, sites() call
    pc,        \* Adjacency::new: "start" before the call, "done" once it has
               \* returned, "panic" if it aborted
    lims,      \* the field lims of the Adjacency returned
    nbhs,      \* the field nbhs of the Adjacency returned
    exch,      \* the field exch of the Adjacency returned
    lookup,    \* the last call of nbhs_of / exch_of and what it returned
    state,     \* the State (a Vec<Spin>) of the simulation
    hamiltonian, \* the energy term built over the Adjacency
    ecall,     \* the last call of energy / total_energy and what it returned
    norms,     \* the magnitudes given to State::rand_with_norms
    scall,     \* the last call of Spin::with_norm and what it returned
    obs,       \* the last call of mag / mag_len, the state it was given and
               \* what it returned
    temperature, \* the integrator's temperature
    tcall,     \* the last call on the integrator, the temperature before it
               \* and what it returned
    driver,    \* main: its position (in its mappings, then in its annealing
               \* loop), the sweeps done in the current block, the floor and
               \* the cooling increment
    trace      \* the proposals of the step under observation, in the order
               \* they were made; in SpecDelta, the comparison made

vars == <<latt, call, iter, emitted, done, prev, pc, lims, nbhs, exch, lookup,
         state, hamiltonian, ecall, norms, scall, obs, temperature, tcall, driver, trace>>

queryVars == <<call>>
sitesVars == <<iter, emitted, done, prev>>
adjVars == <<pc, lims, nbhs, exch, lookup>>
energyVars == <<state, hamiltonian, ecall>>
obsVars == <<norms, scall, obs>>
integVars == <<temperature, tcall, driver, trace>>
physVars == <<energyVars, obsVars, integVars>>

(***************************************************************************)
(* Bounds of the model.                                                    *)
(***************************************************************************)
\* the largest number of cells along an axis
MaxDim == 2
\* the largest number of atoms per unit cell
MaxAtoms == 2

(***************************************************************************)
(* Option, Site, Vertex.                                                   *)
(***************************************************************************)
None == [some |-> FALSE]

Some(v) == [some |-> TRUE, val |-> v]

Site(cell, atom) == [cell |-> cell, atom |-> atom]

Vertex(src, tgt, delta, coupling) ==
    [src |-> src, tgt |-> tgt, delta |-> delta, exch |-> coupling]

Lattice(pbc, shape, natoms, vertices) ==
    [pbc |-> pbc, shape |-> shape, natoms |-> natoms, vertices |-> vertices]

(***************************************************************************)
(* util::super_mod, the wrap of a coordinate into [0, modulo): a floor-    *)
(* style modulo, defined for a positive modulo.  (TLA+'s % is the floor    *)
(* modulo; it is written out here by cases on the sign.)                   *)
(***************************************************************************)
super_mod(num, modulo) ==
    IF num >= 0
    THEN num - modulo * (num \div modulo)
    ELSE LET r == (-num) - modulo * ((-num) \div modulo)
         IN  IF r = 0 THEN 0 ELSE modulo - r

(***************************************************************************)
(* Lattice::inside.                                                        *)
(***************************************************************************)
\* inside with the wrap of the y coordinate left out
inside_no_wrap_y(l, site) ==
    LET x == site.cell[1]
        y == site.cell[2]
        z == site.cell[3]
        sx == l.shape[1]
        sy == l.shape[2]
        sz == l.shape[3]
    IN  IF ~(site.atom < l.natoms) THEN None
        ELSE IF ~l.pbc[1] /\ (x < 0 \/ sx <= x) THEN None
        ELSE IF ~l.pbc[2] /\ (y < 0 \/ sy <= y) THEN None
        ELSE IF ~l.pbc[3] /\ (z < 0 \/ sz <= z) THEN None
        ELSE Some(Site(<<super_mod(x, sx), y, super_mod(z, sz)>>, site.atom))

\* inside with the range test of the z axis reading y where it should read z
inside_z_test_reads_y(l, site) ==
    LET x == site.cell[1]
        y == site.cell[2]
        z == site.cell[3]
        sx == l.shape[1]
        sy == l.shape[2]
        sz == l.shape[3]
    IN  IF ~(site.atom < l.natoms) THEN None
        ELSE IF ~l.pbc[1] /\ (x < 0 \/ sx <= x) THEN None
        ELSE IF ~l.pbc[2] /\ (y < 0 \/ sy <= y) THEN None
        ELSE IF ~l.pbc[3] /\ (y < 0 \/ sz <= y) THEN None
        ELSE Some(Site(<<super_mod(x, sx), super_mod(y, sy), super_mod(z, sz)>>,
                       site.atom))

\* inside with the atom test off by one (atom <= natoms accepted)
inside_atom_off_by_one(l, site) ==
    LET x == site.cell[1]
        y == site.cell[2]
        z == site.cell[3]
        sx == l.shape[1]
        sy == l.shape[2]
        sz == l.shape[3]
    IN  IF ~(site.atom <= l.natoms) THEN None
        ELSE IF ~l.pbc[1] /\ (x < 0 \/ sx <= x) THEN None
        ELSE IF ~l.pbc[2] /\ (y < 0 \/ sy <= y) THEN None
        ELSE IF ~l.pbc[3] /\ (z < 0 \/ sz <= z) THEN None
        ELSE Some(Site(<<super_mod(x, sx), super_mod(y, sy), super_mod(z, sz)>>,
                       site.atom))

inside(l, site) ==
    LET x == site.cell[1]
        y == site.cell[2]
        z == site.cell[3]
        sx == l.shape[1]
        sy == l.shape[2]
        sz == l.shape[3]
    IN  IF ~(site.atom < l.natoms) THEN None
        ELSE IF ~l.pbc[1] /\ (x < 0 \/ sx <= x) THEN None
        ELSE IF ~l.pbc[2] /\ (y < 0 \/ sy <= y) THEN None
        ELSE IF ~l.pbc[3] /\ (z < 0 \/ sz <= z) THEN None
        ELSE Some(Site(<<super_mod(x, sx), super_mod(y, sy), super_mod(z, sz)>>,
                       site.atom))

(***************************************************************************)
(* Lattice::index and Lattice::nsites.                                     *)
(***************************************************************************)
\* index with the two strides exchanged: sy * (sx * cz + cy) + cx
index_swapped_strides(l, site) ==
    LET r == inside(l, site)
    IN  IF ~r.some THEN None
        ELSE LET atom == r.val.atom
                 natm == l.natoms
                 sx == l.shape[1]
                 sy == l.shape[2]
                 cx == r.val.cell[1]
                 cy == r.val.cell[2]
                 cz == r.val.cell[3]
             IN  Some(natm * (sy * (sx * cz + cy) + cx) + atom)

\* index flattening the cell as given, without canonicalizing it first
index_of_raw_cell(l, site) ==
    LET atom == site.atom
        natm == l.natoms
        sx == l.shape[1]
        sy == l.shape[2]
        cx == site.cell[1]
        cy == site.cell[2]
        cz == site.cell[3]
    IN  Some(natm * (sx * (sy * cz + cy) + cx) + atom)

index(l, site) ==
    LET r == inside(l, site)
    IN  IF ~r.some THEN None
        ELSE LET atom == r.val.atom
                 natm == l.natoms
                 sx == l.shape[1]
                 sy == l.shape[2]
                 cx == r.val.cell[1]
                 cy == r.val.cell[2]
                 cz == r.val.cell[3]
             IN  Some(natm * (sx * (sy * cz + cy) + cx) + atom)

nsites(l) == l.natoms * l.shape[1] * l.shape[2] * l.shape[3]

(***************************************************************************)
(* Vertex::tgt_for and Lattice::tgts.                                      *)
(***************************************************************************)
\* tgt_for without the test of the source atom
tgt_for_any_src(vx, site) ==
    Some(Site(<<site.cell[1] + vx.delta[1],
                site.cell[2] + vx.delta[2],
                site.cell[3] + vx.delta[3]>>, vx.tgt))

tgt_for(vx, site) ==
    IF site.atom # vx.src THEN None
    ELSE Some(Site(<<site.cell[1] + vx.delta[1],
                     site.cell[2] + vx.delta[2],
                     site.cell[3] + vx.delta[3]>>, vx.tgt))

\* the for loop of tgts without the inside test of the target: a target
\* outside the lattice is pushed as computed
tgts_loop_keeps_outside(l, site) ==
    LET hit(vx) == tgt_for(vx, site).some
        kept == SelectSeq(l.vertices, hit)
    IN  [k \in 1 .. Len(kept) |->
            <<IF inside(l, tgt_for(kept[k], site).val).some
              THEN inside(l, tgt_for(kept[k], site).val).val
              ELSE tgt_for(kept[k], site).val,
              kept[k].exch>>]

\* the for loop of tgts pushing the candidate as computed, not canonicalized
tgts_loop_raw_target(l, site) ==
    LET hit(vx) == /\ tgt_for(vx, site).some
                   /\ inside(l, tgt_for(vx, site).val).some
        kept == SelectSeq(l.vertices, hit)
    IN  [k \in 1 .. Len(kept) |-> <<tgt_for(kept[k], site).val, kept[k].exch>>]

\* the for loop of tgts, site being the canonical site: the vertices that
\* give a target inside the lattice, in order, each with its target
tgts_loop(l, site) ==
    LET hit(vx) == /\ tgt_for(vx, site).some
                   /\ inside(l, tgt_for(vx, site).val).some
        kept == SelectSeq(l.vertices, hit)
    IN  [k \in 1 .. Len(kept) |->
            <<inside(l, tgt_for(kept[k], site).val).val, kept[k].exch>>]

tgts(l, site) ==
    LET r == inside(l, site)
    IN  IF ~r.some THEN None ELSE Some(tgts_loop(l, r.val))

(***************************************************************************)
(* The built-in bond-template tables, and a list of templates used as an   *)
(* input: two atom types and a third id that is out of range for small     *)
(* unit cells, present, absent and zero couplings, offsets of two cells,   *)
(* a template given twice; every template has its opposite.                *)
(***************************************************************************)
list_for_cubic ==
  <<
    Vertex(0, 0, <<1, 0, 0>>, None),
    Vertex(0, 0, <<0, 1, 0>>, None),
    Vertex(0, 0, <<0, 0, 1>>, None),
    Vertex(0, 0, <<-1, 0, 0>>, None),
    Vertex(0, 0, <<0, -1, 0>>, None),
    Vertex(0, 0, <<0, 0, -1>>, None)
  >>

list_for_honeycomb ==
  <<
    Vertex(0, 1, <<0, 0, 0>>, None),
    Vertex(1, 0, <<0, 0, 0>>, None),
    Vertex(0, 1, <<1, 0, 0>>, None),
    Vertex(1, 0, <<0, 1, 0>>, None),
    Vertex(0, 1, <<-1, 0, 0>>, None),
    Vertex(1, 0, <<0, -1, 0>>, None),
    Vertex(0, 0, <<0, 0, 1>>, None),
    Vertex(1, 1, <<0, 0, 1>>, None),
    Vertex(0, 0, <<0, 0, -1>>, None),
    Vertex(1, 1, <<0, 0, -1>>, None)
  >>

list_for_manganite ==
  <<
    Vertex(0, 2, <<-1, 0, 0>>, Some(465)),
    Vertex(0, 6, <<0, -1, 0>>, Some(465)),
    Vertex(0, 18, <<0, 0, -1>>, Some(465)),
    Vertex(0, 1, <<0, 0, 0>>, Some(135)),
    Vertex(0, 3, <<0, 0, 0>>, Some(135)),
    Vertex(0, 9, <<0, 0, 0>>, Some(135)),
    Vertex(1, 7, <<0, -1, 0>>, Some(135)),
    Vertex(1, 19, <<0, 0, -1>>, Some(135)),
    Vertex(1, 0, <<0, 0, 0>>, Some(135)),
    Vertex(1, 2, <<0, 0, 0>>, Some(777)),
    Vertex(1, 4, <<0, 0, 0>>, Some(777)),
    Vertex(1, 10, <<0, 0, 0>>, Some(777)),
    Vertex(2, 8, <<0, -1, 0>>, Some(777)),
    Vertex(2, 20, <<0, 0, -1>>, Some(777)),
    Vertex(2, 1, <<0, 0, 0>>, Some(777)),
    Vertex(2, 5, <<0, 0, 0>>, Some(465)),
    Vertex(2, 11, <<0, 0, 0>>, Some(465)),
    Vertex(2, 0, <<1, 0, 0>>, Some(465)),
    Vertex(3, 5, <<-1, 0, 0>>, Some(135)),
    Vertex(3, 21, <<0, 0, -1>>, Some(135)),
    Vertex(3, 0, <<0, 0, 0>>, Some(135)),
    Vertex(3, 4, <<0, 0, 0>>, Some(777)),
    Vertex(3, 6, <<0, 0, 0>>, Some(777)),
    Vertex(3, 12, <<0, 0, 0>>, Some(777)),
    Vertex(4, 22, <<0, 0, -1>>, Some(777)),
    Vertex(4, 1, <<0, 0, 0>>, Some(777)),
    Vertex(4, 3, <<0, 0, 0>>, Some(777)),
    Vertex(4, 5, <<0, 0, 0>>, Some(465)),
    Vertex(4, 7, <<0, 0, 0>>, Some(465)),
    Vertex(4, 13, <<0, 0, 0>>, Some(465)),
    Vertex(5, 23, <<0, 0, -1>>, Some(465)),
    Vertex(5, 2, <<0, 0, 0>>, Some(465)),
    Vertex(5, 4, <<0, 0, 0>>, Some(465)),
    Vertex(5, 8, <<0, 0, 0>>, Some(135)),
    Vertex(5, 14, <<0, 0, 0>>, Some(135)),
    Vertex(5, 3, <<1, 0, 0>>, Some(135)),
    Vertex(6, 8, <<-1, 0, 0>>, Some(777)),
    Vertex(6, 24, <<0, 0, -1>>, Some(777)),
    Vertex(6, 3, <<0, 0, 0>>, Some(777)),
    Vertex(6, 7, <<0, 0, 0>>, Some(465)),
    Vertex(6, 15, <<0, 0, 0>>, Some(465)),
    Vertex(6, 0, <<0, 1, 0>>, Some(465)),
    Vertex(7, 25, <<0, 0, -1>>, Some(465)),
    Vertex(7, 4, <<0, 0, 0>>, Some(465)),
    Vertex(7, 6, <<0, 0, 0>>, Some(465)),
    Vertex(7, 8, <<0, 0, 0>>, Some(135)),
    Vertex(7, 16, <<0, 0, 0>>, Some(135)),
    Vertex(7, 1, <<0, 1, 0>>, Some(135)),
    Vertex(8, 26, <<0, 0, -1>>, Some(135)),
    Vertex(8, 5, <<0, 0, 0>>, Some(135)),
    Vertex(8, 7, <<0, 0, 0>>, Some(135)),
    Vertex(8, 17, <<0, 0, 0>>, Some(777)),
    Vertex(8, 2, <<0, 1, 0>>, Some(777)),
    Vertex(8, 6, <<1, 0, 0>>, Some(777)),
    Vertex(9, 11, <<-1, 0, 0>>, Some(135)),
    Vertex(9, 15, <<0, -1, 0>>, Some(135)),
    Vertex(9, 0, <<0, 0, 0>>, Some(135)),
    Vertex(9, 10, <<0, 0, 0>>, Some(777)),
    Vertex(9, 12, <<0, 0, 0>>, Some(777)),
    Vertex(9, 18, <<0, 0, 0>>, Some(777)),
    Vertex(10, 16, <<0, -1, 0>>, Some(777)),
    Vertex(10, 1, <<0, 0, 0>>, Some(777)),
    Vertex(10, 9, <<0, 0, 0>>, Some(777)),
    Vertex(10, 11, <<0, 0, 0>>, Some(465)),
    Vertex(10, 13, <<0, 0, 0>>, Some(465)),
    Vertex(10, 19, <<0, 0, 0>>, Some(465)),
    Vertex(11, 17, <<0, -1, 0>>, Some(465)),
    Vertex(11, 2, <<0, 0, 0>>, Some(465)),
    Vertex(11, 10, <<0, 0, 0>>, Some(465)),
    Vertex(11, 14, <<0, 0, 0>>, Some(135)),
    Vertex(11, 20, <<0, 0, 0>>, Some(135)),
    Vertex(11, 9, <<1, 0, 0>>, Some(135)),
    Vertex(12, 14, <<-1, 0, 0>>, Some(777)),
    Vertex(12, 3, <<0, 0, 0>>, Some(777)),
    Vertex(12, 9, <<0, 0, 0>>, Some(777)),
    Vertex(12, 13, <<0, 0, 0>>, Some(465)),
    Vertex(12, 15, <<0, 0, 0>>, Some(465)),
    Vertex(12, 21, <<0, 0, 0>>, Some(465)),
    Vertex(13, 4, <<0, 0, 0>>, Some(465)),
    Vertex(13, 10, <<0, 0, 0>>, Some(465)),
    Vertex(13, 12, <<0, 0, 0>>, Some(465)),
    Vertex(13, 14, <<0, 0, 0>>, Some(135)),
    Vertex(13, 16, <<0, 0, 0>>, Some(135)),
    Vertex(13, 22, <<0, 0, 0>>, Some(135)),
    Vertex(14, 5, <<0, 0, 0>>, Some(135)),
    Vertex(14, 11, <<0, 0, 0>>, Some(135)),
    Vertex(14, 13, <<0, 0, 0>>, Some(135)),
    Vertex(14, 17, <<0, 0, 0>>, Some(777)),
    Vertex(14, 23, <<0, 0, 0>>, Some(777)),
    Vertex(14, 12, <<1, 0, 0>>, Some(777)),
    Vertex(15, 17, <<-1, 0, 0>>, Some(465)),
    Vertex(15, 6, <<0, 0, 0>>, Some(465)),
    Vertex(15, 12, <<0, 0, 0>>, Some(465)),
    Vertex(15, 16, <<0, 0, 0>>, Some(135)),
    Vertex(15, 24, <<0, 0, 0>>, Some(135)),
    Vertex(15, 9, <<0, 1, 0>>, Some(135)),
    Vertex(16, 7, <<0, 0, 0>>, Some(135)),
    Vertex(16, 13, <<0, 0, 0>>, Some(135)),
    Vertex(16, 15, <<0, 0, 0>>, Some(135)),
    Vertex(16, 17, <<0, 0, 0>>, Some(777)),
    Vertex(16, 25, <<0, 0, 0>>, Some(777)),
    Vertex(16, 10, <<0, 1, 0>>, Some(777)),
    Vertex(17, 8, <<0, 0, 0>>, Some(777)),
    Vertex(17, 14, <<0, 0, 0>>, Some(777)),
    Vertex(17, 16, <<0, 0, 0>>, Some(777)),
    Vertex(17, 26, <<0, 0, 0>>, Some(465)),
    Vertex(17, 11, <<0, 1, 0>>, Some(465)),
    Vertex(17, 15, <<1, 0, 0>>, Some(465)),
    Vertex(18, 20, <<-1, 0, 0>>, Some(777)),
    Vertex(18, 24, <<0, -1, 0>>, Some(777)),
    Vertex(18, 9, <<0, 0, 0>>, Some(777)),
    Vertex(18, 19, <<0, 0, 0>>, Some(465)),
    Vertex(18, 21, <<0, 0, 0>>, Some(465)),
    Vertex(18, 0, <<0, 0, 1>>, Some(465)),
    Vertex(19, 25, <<0, -1, 0>>, Some(465)),
    Vertex(19, 10, <<0, 0, 0>>, Some(465)),
    Vertex(19, 18, <<0, 0, 0>>, Some(465)),
    Vertex(19, 20, <<0, 0, 0>>, Some(135)),
    Vertex(19, 22, <<0, 0, 0>>, Some(135)),
    Vertex(19, 1, <<0, 0, 1>>, Some(135)),
    Vertex(20, 26, <<0, -1, 0>>, Some(135)),
    Vertex(20, 11, <<0, 0, 0>>, Some(135)),
    Vertex(20, 19, <<0, 0, 0>>, Some(135)),
    Vertex(20, 23, <<0, 0, 0>>, Some(777)),
    Vertex(20, 2, <<0, 0, 1>>, Some(777)),
    Vertex(20, 18, <<1, 0, 0>>, Some(777)),
    Vertex(21, 23, <<-1, 0, 0>>, Some(465)),
    Vertex(21, 12, <<0, 0, 0>>, Some(465)),
    Vertex(21, 18, <<0, 0, 0>>, Some(465)),
    Vertex(21, 22, <<0, 0, 0>>, Some(135)),
    Vertex(21, 24, <<0, 0, 0>>, Some(135)),
    Vertex(21, 3, <<0, 0, 1>>, Some(135)),
    Vertex(22, 13, <<0, 0, 0>>, Some(135)),
    Vertex(22, 19, <<0, 0, 0>>, Some(135)),
    Vertex(22, 21, <<0, 0, 0>>, Some(135)),
    Vertex(22, 23, <<0, 0, 0>>, Some(777)),
    Vertex(22, 25, <<0, 0, 0>>, Some(777)),
    Vertex(22, 4, <<0, 0, 1>>, Some(777)),
    Vertex(23, 14, <<0, 0, 0>>, Some(777)),
    Vertex(23, 20, <<0, 0, 0>>, Some(777)),
    Vertex(23, 22, <<0, 0, 0>>, Some(777)),
    Vertex(23, 26, <<0, 0, 0>>, Some(465)),
    Vertex(23, 5, <<0, 0, 1>>, Some(465)),
    Vertex(23, 21, <<1, 0, 0>>, Some(465)),
    Vertex(24, 26, <<-1, 0, 0>>, Some(135)),
    Vertex(24, 15, <<0, 0, 0>>, Some(135)),
    Vertex(24, 21, <<0, 0, 0>>, Some(135)),
    Vertex(24, 25, <<0, 0, 0>>, Some(777)),
    Vertex(24, 6, <<0, 0, 1>>, Some(777)),
    Vertex(24, 18, <<0, 1, 0>>, Some(777)),
    Vertex(25, 16, <<0, 0, 0>>, Some(777)),
    Vertex(25, 22, <<0, 0, 0>>, Some(777)),
    Vertex(25, 24, <<0, 0, 0>>, Some(777)),
    Vertex(25, 26, <<0, 0, 0>>, Some(465)),
    Vertex(25, 7, <<0, 0, 1>>, Some(465)),
    Vertex(25, 19, <<0, 1, 0>>, Some(465)),
    Vertex(26, 17, <<0, 0, 0>>, Some(465)),
    Vertex(26, 23, <<0, 0, 0>>, Some(465)),
    Vertex(26, 25, <<0, 0, 0>>, Some(465)),
    Vertex(26, 8, <<0, 0, 1>>, Some(135)),
    Vertex(26, 20, <<0, 1, 0>>, Some(135)),
    Vertex(26, 24, <<1, 0, 0>>, Some(135))
  >>

list_for_hcp ==
  <<
    Vertex(0, 0, <<1, 0, 0>>, None),
    Vertex(0, 0, <<0, 1, 0>>, None),
    Vertex(0, 0, <<1, 1, 0>>, None),
    Vertex(0, 0, <<-1, 0, 0>>, None),
    Vertex(0, 0, <<0, -1, 0>>, None),
    Vertex(0, 0, <<-1, -1, 0>>, None),
    Vertex(1, 1, <<1, 0, 0>>, None),
    Vertex(1, 1, <<0, 1, 0>>, None),
    Vertex(1, 1, <<1, 1, 0>>, None),
    Vertex(1, 1, <<-1, 0, 0>>, None),
    Vertex(1, 1, <<0, -1, 0>>, None),
    Vertex(1, 1, <<-1, -1, 0>>, None),
    Vertex(0, 1, <<0, 0, 0>>, None),
    Vertex(0, 1, <<-1, 0, 0>>, None),
    Vertex(0, 1, <<-1, -1, 0>>, None),
    Vertex(0, 1, <<0, 0, -1>>, None),
    Vertex(0, 1, <<-1, 0, -1>>, None),
    Vertex(0, 1, <<-1, -1, -1>>, None),
    Vertex(1, 0, <<0, 0, 0>>, None),
    Vertex(1, 0, <<1, 0, 0>>, None),
    Vertex(1, 0, <<1, 1, 0>>, None),
    Vertex(1, 0, <<0, 0, 1>>, None),
    Vertex(1, 0, <<1, 0, 1>>, None),
    Vertex(1, 0, <<1, 1, 1>>, None)
  >>

list_for_magnetite ==
  <<
    Vertex(0, 19, <<-1, -1, -1>>, Some(11)),
    Vertex(0, 4, <<-1, -1, 0>>, Some(292)),
    Vertex(0, 5, <<-1, -1, 0>>, Some(292)),
    Vertex(0, 11, <<-1, -1, 0>>, Some(292)),
    Vertex(0, 17, <<-1, 0, -1>>, Some(292)),
    Vertex(0, 22, <<-1, 0, -1>>, Some(292)),
    Vertex(0, 23, <<-1, 0, -1>>, Some(292)),
    Vertex(0, 7, <<-1, 0, 0>>, Some(11)),
    Vertex(0, 14, <<0, -1, -1>>, Some(292)),
    Vertex(0, 20, <<0, -1, -1>>, Some(292)),
    Vertex(0, 21, <<0, -1, -1>>, Some(292)),
    Vertex(0, 6, <<0, -1, 0>>, Some(11)),
    Vertex(0, 18, <<0, 0, -1>>, Some(11)),
    Vertex(0, 2, <<0, 0, 0>>, Some(292)),
    Vertex(0, 3, <<0, 0, 0>>, Some(292)),
    Vertex(0, 8, <<0, 0, 0>>, Some(292)),
    Vertex(1, 15, <<0, 0, -1>>, Some(292)),
    Vertex(1, 16, <<0, 0, -1>>, Some(292)),
    Vertex(1, 18, <<0, 0, -1>>, Some(11)),
    Vertex(1, 19, <<0, 0, -1>>, Some(11)),
    Vertex(1, 20, <<0, 0, -1>>, Some(292)),
    Vertex(1, 21, <<0, 0, -1>>, Some(292)),
    Vertex(1, 22, <<0, 0, -1>>, Some(292)),
    Vertex(1, 23, <<0, 0, -1>>, Some(292)),
    Vertex(1, 2, <<0, 0, 0>>, Some(292)),
    Vertex(1, 3, <<0, 0, 0>>, Some(292)),
    Vertex(1, 4, <<0, 0, 0>>, Some(292)),
    Vertex(1, 5, <<0, 0, 0>>, Some(292)),
    Vertex(1, 6, <<0, 0, 0>>, Some(11)),
    Vertex(1, 7, <<0, 0, 0>>, Some(11)),
    Vertex(1, 9, <<0, 0, 0>>, Some(292)),
    Vertex(1, 10, <<0, 0, 0>>, Some(292)),
    Vertex(2, 23, <<-1, 0, -1>>, Some(-63)),
    Vertex(2, 5, <<-1, 0, 0>>, Some(-63)),
    Vertex(2, 7, <<-1, 0, 0>>, Some(292)),
    Vertex(2, 18, <<0, 0, -1>>, Some(292)),
    Vertex(2, 20, <<0, 0, -1>>, Some(-63)),
    Vertex(2, 0, <<0, 0, 0>>, Some(292)),
    Vertex(2, 1, <<0, 0, 0>>, Some(292)),
    Vertex(2, 3, <<0, 0, 0>>, Some(-63)),
    Vertex(2, 6, <<0, 0, 0>>, Some(292)),
    Vertex(2, 8, <<0, 0, 0>>, Some(-63)),
    Vertex(2, 9, <<0, 0, 0>>, Some(-63)),
    Vertex(2, 12, <<0, 0, 0>>, Some(292)),
    Vertex(3, 21, <<0, -1, -1>>, Some(-63)),
    Vertex(3, 4, <<0, -1, 0>>, Some(-63)),
    Vertex(3, 6, <<0, -1, 0>>, Some(292)),
    Vertex(3, 18, <<0, 0, -1>>, Some(292)),
    Vertex(3, 22, <<0, 0, -1>>, Some(-63)),
    Vertex(3, 0, <<0, 0, 0>>, Some(292)),
    Vertex(3, 1, <<0, 0, 0>>, Some(292)),
    Vertex(3, 2, <<0, 0, 0>>, Some(-63)),
    Vertex(3, 7, <<0, 0, 0>>, Some(292)),
    Vertex(3, 8, <<0, 0, 0>>, Some(-63)),
    Vertex(3, 9, <<0, 0, 0>>, Some(-63)),
    Vertex(3, 13, <<0, 0, 0>>, Some(292)),
    Vertex(4, 19, <<0, 0, -1>>, Some(292)),
    Vertex(4, 21, <<0, 0, -1>>, Some(-63)),
    Vertex(4, 1, <<0, 0, 0>>, Some(292)),
    Vertex(4, 5, <<0, 0, 0>>, Some(-63)),
    Vertex(4, 6, <<0, 0, 0>>, Some(292)),
    Vertex(4, 10, <<0, 0, 0>>, Some(-63)),
    Vertex(4, 11, <<0, 0, 0>>, Some(-63)),
    Vertex(4, 22, <<0, 1, -1>>, Some(-63)),
    Vertex(4, 3, <<0, 1, 0>>, Some(-63)),
    Vertex(4, 7, <<0, 1, 0>>, Some(292)),
    Vertex(4, 13, <<0, 1, 0>>, Some(292)),
    Vertex(4, 0, <<1, 1, 0>>, Some(292)),
    Vertex(5, 19, <<0, 0, -1>>, Some(292)),
    Vertex(5, 23, <<0, 0, -1>>, Some(-63)),
    Vertex(5, 1, <<0, 0, 0>>, Some(292)),
    Vertex(5, 4, <<0, 0, 0>>, Some(-63)),
    Vertex(5, 7, <<0, 0, 0>>, Some(292)),
    Vertex(5, 10, <<0, 0, 0>>, Some(-63)),
    Vertex(5, 11, <<0, 0, 0>>, Some(-63)),
    Vertex(5, 20, <<1, 0, -1>>, Some(-63)),
    Vertex(5, 2, <<1, 0, 0>>, Some(-63)),
    Vertex(5, 6, <<1, 0, 0>>, Some(292)),
    Vertex(5, 12, <<1, 0, 0>>, Some(292)),
    Vertex(5, 0, <<1, 1, 0>>, Some(292)),
    Vertex(6, 5, <<-1, 0, 0>>, Some(292)),
    Vertex(6, 11, <<-1, 0, 0>>, Some(292)),
    Vertex(6, 20, <<0, 0, -1>>, Some(292)),
    Vertex(6, 21, <<0, 0, -1>>, Some(292)),
    Vertex(6, 1, <<0, 0, 0>>, Some(11)),
    Vertex(6, 2, <<0, 0, 0>>, Some(292)),
    Vertex(6, 4, <<0, 0, 0>>, Some(292)),
    Vertex(6, 9, <<0, 0, 0>>, Some(292)),
    Vertex(6, 10, <<0, 0, 0>>, Some(292)),
    Vertex(6, 12, <<0, 0, 0>>, Some(11)),
    Vertex(6, 14, <<0, 0, 0>>, Some(292)),
    Vertex(6, 15, <<0, 0, 0>>, Some(292)),
    Vertex(6, 0, <<0, 1, 0>>, Some(11)),
    Vertex(6, 3, <<0, 1, 0>>, Some(292)),
    Vertex(6, 8, <<0, 1, 0>>, Some(292)),
    Vertex(6, 13, <<0, 1, 0>>, Some(11)),
    Vertex(7, 4, <<0, -1, 0>>, Some(292)),
    Vertex(7, 11, <<0, -1, 0>>, Some(292)),
    Vertex(7, 22, <<0, 0, -1>>, Some(292)),
    Vertex(7, 23, <<0, 0, -1>>, Some(292)),
    Vertex(7, 1, <<0, 0, 0>>, Some(11)),
    Vertex(7, 3, <<0, 0, 0>>, Some(292)),
    Vertex(7, 5, <<0, 0, 0>>, Some(292)),
    Vertex(7, 9, <<0, 0, 0>>, Some(292)),
    Vertex(7, 10, <<0, 0, 0>>, Some(292)),
    Vertex(7, 13, <<0, 0, 0>>, Some(11)),
    Vertex(7, 16, <<0, 0, 0>>, Some(292)),
    Vertex(7, 17, <<0, 0, 0>>, Some(292)),
    Vertex(7, 0, <<1, 0, 0>>, Some(11)),
    Vertex(7, 2, <<1, 0, 0>>, Some(292)),
    Vertex(7, 8, <<1, 0, 0>>, Some(292)),
    Vertex(7, 12, <<1, 0, 0>>, Some(11)),
    Vertex(8, 11, <<-1, -1, 0>>, Some(-63)),
    Vertex(8, 7, <<-1, 0, 0>>, Some(292)),
    Vertex(8, 17, <<-1, 0, 0>>, Some(-63)),
    Vertex(8, 6, <<0, -1, 0>>, Some(292)),
    Vertex(8, 14, <<0, -1, 0>>, Some(-63)),
    Vertex(8, 0, <<0, 0, 0>>, Some(292)),
    Vertex(8, 2, <<0, 0, 0>>, Some(-63)),
    Vertex(8, 3, <<0, 0, 0>>, Some(-63)),
    Vertex(8, 9, <<0, 0, 0>>, Some(-63)),
    Vertex(8, 12, <<0, 0, 0>>, Some(292)),
    Vertex(8, 13, <<0, 0, 0>>, Some(292)),
    Vertex(8, 18, <<0, 0, 0>>, Some(292)),
    Vertex(9, 1, <<0, 0, 0>>, Some(292)),
    Vertex(9, 2, <<0, 0, 0>>, Some(-63)),
    Vertex(9, 3, <<0, 0, 0>>, Some(-63)),
    Vertex(9, 6, <<0, 0, 0>>, Some(292)),
    Vertex(9, 7, <<0, 0, 0>>, Some(292)),
    Vertex(9, 8, <<0, 0, 0>>, Some(-63)),
    Vertex(9, 10, <<0, 0, 0>>, Some(-63)),
    Vertex(9, 12, <<0, 0, 0>>, Some(292)),
    Vertex(9, 13, <<0, 0, 0>>, Some(292)),
    Vertex(9, 15, <<0, 0, 0>>, Some(-63)),
    Vertex(9, 16, <<0, 0, 0>>, Some(-63)),
    Vertex(9, 18, <<0, 0, 0>>, Some(292)),
    Vertex(10, 1, <<0, 0, 0>>, Some(292)),
    Vertex(10, 4, <<0, 0, 0>>, Some(-63)),
    Vertex(10, 5, <<0, 0, 0>>, Some(-63)),
    Vertex(10, 6, <<0, 0, 0>>, Some(292)),
    Vertex(10, 7, <<0, 0, 0>>, Some(292)),
    Vertex(10, 9, <<0, 0, 0>>, Some(-63)),
    Vertex(10, 11, <<0, 0, 0>>, Some(-63)),
    Vertex(10, 15, <<0, 0, 0>>, Some(-63)),
    Vertex(10, 16, <<0, 0, 0>>, Some(-63)),
    Vertex(10, 19, <<0, 0, 0>>, Some(292)),
    Vertex(10, 13, <<0, 1, 0>>, Some(292)),
    Vertex(10, 12, <<1, 0, 0>>, Some(292)),
    Vertex(11, 4, <<0, 0, 0>>, Some(-63)),
    Vertex(11, 5, <<0, 0, 0>>, Some(-63)),
    Vertex(11, 10, <<0, 0, 0>>, Some(-63)),
    Vertex(11, 19, <<0, 0, 0>>, Some(292)),
    Vertex(11, 7, <<0, 1, 0>>, Some(292)),
    Vertex(11, 13, <<0, 1, 0>>, Some(292)),
    Vertex(11, 17, <<0, 1, 0>>, Some(-63)),
    Vertex(11, 6, <<1, 0, 0>>, Some(292)),
    Vertex(11, 12, <<1, 0, 0>>, Some(292)),
    Vertex(11, 14, <<1, 0, 0>>, Some(-63)),
    Vertex(11, 0, <<1, 1, 0>>, Some(292)),
    Vertex(11, 8, <<1, 1, 0>>, Some(-63)),
    Vertex(12, 5, <<-1, 0, 0>>, Some(292)),
    Vertex(12, 7, <<-1, 0, 0>>, Some(11)),
    Vertex(12, 10, <<-1, 0, 0>>, Some(292)),
    Vertex(12, 11, <<-1, 0, 0>>, Some(292)),
    Vertex(12, 16, <<-1, 0, 0>>, Some(292)),
    Vertex(12, 17, <<-1, 0, 0>>, Some(292)),
    Vertex(12, 19, <<-1, 0, 0>>, Some(11)),
    Vertex(12, 23, <<-1, 0, 0>>, Some(292)),
    Vertex(12, 2, <<0, 0, 0>>, Some(292)),
    Vertex(12, 6, <<0, 0, 0>>, Some(11)),
    Vertex(12, 8, <<0, 0, 0>>, Some(292)),
    Vertex(12, 9, <<0, 0, 0>>, Some(292)),
    Vertex(12, 14, <<0, 0, 0>>, Some(292)),
    Vertex(12, 15, <<0, 0, 0>>, Some(292)),
    Vertex(12, 18, <<0, 0, 0>>, Some(11)),
    Vertex(12, 20, <<0, 0, 0>>, Some(292)),
    Vertex(13, 4, <<0, -1, 0>>, Some(292)),
    Vertex(13, 6, <<0, -1, 0>>, Some(11)),
    Vertex(13, 10, <<0, -1, 0>>, Some(292)),
    Vertex(13, 11, <<0, -1, 0>>, Some(292)),
    Vertex(13, 14, <<0, -1, 0>>, Some(292)),
    Vertex(13, 15, <<0, -1, 0>>, Some(292)),
    Vertex(13, 19, <<0, -1, 0>>, Some(11)),
    Vertex(13, 21, <<0, -1, 0>>, Some(292)),
    Vertex(13, 3, <<0, 0, 0>>, Some(292)),
    Vertex(13, 7, <<0, 0, 0>>, Some(11)),
    Vertex(13, 8, <<0, 0, 0>>, Some(292)),
    Vertex(13, 9, <<0, 0, 0>>, Some(292)),
    Vertex(13, 16, <<0, 0, 0>>, Some(292)),
    Vertex(13, 17, <<0, 0, 0>>, Some(292)),
    Vertex(13, 18, <<0, 0, 0>>, Some(11)),
    Vertex(13, 22, <<0, 0, 0>>, Some(292)),
    Vertex(14, 11, <<-1, 0, 0>>, Some(-63)),
    Vertex(14, 19, <<-1, 0, 0>>, Some(292)),
    Vertex(14, 17, <<-1, 1, 0>>, Some(-63)),
    Vertex(14, 6, <<0, 0, 0>>, Some(292)),
    Vertex(14, 12, <<0, 0, 0>>, Some(292)),
    Vertex(14, 15, <<0, 0, 0>>, Some(-63)),
    Vertex(14, 20, <<0, 0, 0>>, Some(-63)),
    Vertex(14, 21, <<0, 0, 0>>, Some(-63)),
    Vertex(14, 8, <<0, 1, 0>>, Some(-63)),
    Vertex(14, 13, <<0, 1, 0>>, Some(292)),
    Vertex(14, 18, <<0, 1, 0>>, Some(292)),
    Vertex(14, 0, <<0, 1, 1>>, Some(292)),
    Vertex(15, 6, <<0, 0, 0>>, Some(292)),
    Vertex(15, 9, <<0, 0, 0>>, Some(-63)),
    Vertex(15, 10, <<0, 0, 0>>, Some(-63)),
    Vertex(15, 12, <<0, 0, 0>>, Some(292)),
    Vertex(15, 14, <<0, 0, 0>>, Some(-63)),
    Vertex(15, 16, <<0, 0, 0>>, Some(-63)),
    Vertex(15, 18, <<0, 0, 0>>, Some(292)),
    Vertex(15, 19, <<0, 0, 0>>, Some(292)),
    Vertex(15, 20, <<0, 0, 0>>, Some(-63)),
    Vertex(15, 21, <<0, 0, 0>>, Some(-63)),
    Vertex(15, 1, <<0, 0, 1>>, Some(292)),
    Vertex(15, 13, <<0, 1, 0>>, Some(292)),
    Vertex(16, 7, <<0, 0, 0>>, Some(292)),
    Vertex(16, 9, <<0, 0, 0>>, Some(-63)),
    Vertex(16, 10, <<0, 0, 0>>, Some(-63)),
    Vertex(16, 13, <<0, 0, 0>>, Some(292)),
    Vertex(16, 15, <<0, 0, 0>>, Some(-63)),
    Vertex(16, 17, <<0, 0, 0>>, Some(-63)),
    Vertex(16, 18, <<0, 0, 0>>, Some(292)),
    Vertex(16, 19, <<0, 0, 0>>, Some(292)),
    Vertex(16, 22, <<0, 0, 0>>, Some(-63)),
    Vertex(16, 23, <<0, 0, 0>>, Some(-63)),
    Vertex(16, 1, <<0, 0, 1>>, Some(292)),
    Vertex(16, 12, <<1, 0, 0>>, Some(292)),
    Vertex(17, 11, <<0, -1, 0>>, Some(-63)),
    Vertex(17, 19, <<0, -1, 0>>, Some(292)),
    Vertex(17, 7, <<0, 0, 0>>, Some(292)),
    Vertex(17, 13, <<0, 0, 0>>, Some(292)),
    Vertex(17, 16, <<0, 0, 0>>, Some(-63)),
    Vertex(17, 22, <<0, 0, 0>>, Some(-63)),
    Vertex(17, 23, <<0, 0, 0>>, Some(-63)),
    Vertex(17, 14, <<1, -1, 0>>, Some(-63)),
    Vertex(17, 8, <<1, 0, 0>>, Some(-63)),
    Vertex(17, 12, <<1, 0, 0>>, Some(292)),
    Vertex(17, 18, <<1, 0, 0>>, Some(292)),
    Vertex(17, 0, <<1, 0, 1>>, Some(292)),
    Vertex(18, 17, <<-1, 0, 0>>, Some(292)),
    Vertex(18, 23, <<-1, 0, 0>>, Some(292)),
    Vertex(18, 14, <<0, -1, 0>>, Some(292)),
    Vertex(18, 21, <<0, -1, 0>>, Some(292)),
    Vertex(18, 8, <<0, 0, 0>>, Some(292)),
    Vertex(18, 9, <<0, 0, 0>>, Some(292)),
    Vertex(18, 12, <<0, 0, 0>>, Some(11)),
    Vertex(18, 13, <<0, 0, 0>>, Some(11)),
    Vertex(18, 15, <<0, 0, 0>>, Some(292)),
    Vertex(18, 16, <<0, 0, 0>>, Some(292)),
    Vertex(18, 20, <<0, 0, 0>>, Some(292)),
    Vertex(18, 22, <<0, 0, 0>>, Some(292)),
    Vertex(18, 0, <<0, 0, 1>>, Some(11)),
    Vertex(18, 1, <<0, 0, 1>>, Some(11)),
    Vertex(18, 2, <<0, 0, 1>>, Some(292)),
    Vertex(18, 3, <<0, 0, 1>>, Some(292)),
    Vertex(19, 10, <<0, 0, 0>>, Some(292)),
    Vertex(19, 11, <<0, 0, 0>>, Some(292)),
    Vertex(19, 15, <<0, 0, 0>>, Some(292)),
    Vertex(19, 16, <<0, 0, 0>>, Some(292)),
    Vertex(19, 21, <<0, 0, 0>>, Some(292)),
    Vertex(19, 23, <<0, 0, 0>>, Some(292)),
    Vertex(19, 1, <<0, 0, 1>>, Some(11)),
    Vertex(19, 4, <<0, 0, 1>>, Some(292)),
    Vertex(19, 5, <<0, 0, 1>>, Some(292)),
    Vertex(19, 13, <<0, 1, 0>>, Some(11)),
    Vertex(19, 17, <<0, 1, 0>>, Some(292)),
    Vertex(19, 22, <<0, 1, 0>>, Some(292)),
    Vertex(19, 12, <<1, 0, 0>>, Some(11)),
    Vertex(19, 14, <<1, 0, 0>>, Some(292)),
    Vertex(19, 20, <<1, 0, 0>>, Some(292)),
    Vertex(19, 0, <<1, 1, 1>>, Some(11)),
    Vertex(20, 19, <<-1, 0, 0>>, Some(292)),
    Vertex(20, 23, <<-1, 0, 0>>, Some(-63)),
    Vertex(20, 5, <<-1, 0, 1>>, Some(-63)),
    Vertex(20, 12, <<0, 0, 0>>, Some(292)),
    Vertex(20, 14, <<0, 0, 0>>, Some(-63)),
    Vertex(20, 15, <<0, 0, 0>>, Some(-63)),
    Vertex(20, 18, <<0, 0, 0>>, Some(292)),
    Vertex(20, 21, <<0, 0, 0>>, Some(-63)),
    Vertex(20, 1, <<0, 0, 1>>, Some(292)),
    Vertex(20, 2, <<0, 0, 1>>, Some(-63)),
    Vertex(20, 6, <<0, 0, 1>>, Some(292)),
    Vertex(20, 0, <<0, 1, 1>>, Some(292)),
    Vertex(21, 14, <<0, 0, 0>>, Some(-63)),
    Vertex(21, 15, <<0, 0, 0>>, Some(-63)),
    Vertex(21, 19, <<0, 0, 0>>, Some(292)),
    Vertex(21, 20, <<0, 0, 0>>, Some(-63)),
    Vertex(21, 1, <<0, 0, 1>>, Some(292)),
    Vertex(21, 4, <<0, 0, 1>>, Some(-63)),
    Vertex(21, 6, <<0, 0, 1>>, Some(292)),
    Vertex(21, 13, <<0, 1, 0>>, Some(292)),
    Vertex(21, 18, <<0, 1, 0>>, Some(292)),
    Vertex(21, 22, <<0, 1, 0>>, Some(-63)),
    Vertex(21, 0, <<0, 1, 1>>, Some(292)),
    Vertex(21, 3, <<0, 1, 1>>, Some(-63)),
    Vertex(22, 19, <<0, -1, 0>>, Some(292)),
    Vertex(22, 21, <<0, -1, 0>>, Some(-63)),
    Vertex(22, 4, <<0, -1, 1>>, Some(-63)),
    Vertex(22, 13, <<0, 0, 0>>, Some(292)),
    Vertex(22, 16, <<0, 0, 0>>, Some(-63)),
    Vertex(22, 17, <<0, 0, 0>>, Some(-63)),
    Vertex(22, 18, <<0, 0, 0>>, Some(292)),
    Vertex(22, 23, <<0, 0, 0>>, Some(-63)),
    Vertex(22, 1, <<0, 0, 1>>, Some(292)),
    Vertex(22, 3, <<0, 0, 1>>, Some(-63)),
    Vertex(22, 7, <<0, 0, 1>>, Some(292)),
    Vertex(22, 0, <<1, 0, 1>>, Some(292)),
    Vertex(23, 16, <<0, 0, 0>>, Some(-63)),
    Vertex(23, 17, <<0, 0, 0>>, Some(-63)),
    Vertex(23, 19, <<0, 0, 0>>, Some(292)),
    Vertex(23, 22, <<0, 0, 0>>, Some(-63)),
    Vertex(23, 1, <<0, 0, 1>>, Some(292)),
    Vertex(23, 5, <<0, 0, 1>>, Some(-63)),
    Vertex(23, 7, <<0, 0, 1>>, Some(292)),
    Vertex(23, 12, <<1, 0, 0>>, Some(292)),
    Vertex(23, 18, <<1, 0, 0>>, Some(292)),
    Vertex(23, 20, <<1, 0, 0>>, Some(-63)),
    Vertex(23, 0, <<1, 0, 1>>, Some(292)),
    Vertex(23, 2, <<1, 0, 1>>, Some(-63))
  >>

ProbeVertices ==
  <<
    Vertex(0, 1, <<1, 0, 0>>, Some(150)),
    Vertex(1, 0, <<-1, 0, 0>>, Some(150)),
    Vertex(0, 0, <<0, 2, -1>>, None),
    Vertex(0, 0, <<0, -2, 1>>, None),
    Vertex(1, 2, <<0, 0, 1>>, Some(-63)),
    Vertex(2, 1, <<0, 0, -1>>, Some(-63)),
    Vertex(0, 0, <<0, 1, 0>>, Some(0)),
    Vertex(0, 0, <<0, 1, 0>>, Some(0)),
    Vertex(0, 0, <<0, -1, 0>>, Some(0)),
    Vertex(0, 0, <<0, -1, 0>>, Some(0)),
    Vertex(1, 1, <<0, 0, 0>>, Some(200))
  >>

(***************************************************************************)
(* CellIterator and SiteIterator.  next returns the iterator as it is left *)
(* (self) and the item.                                                    *)
(***************************************************************************)
CellIterator_new(l) == [cur |-> 0, max |-> l.shape]

\* CellIterator::next with y computed as cur / max.0, the reduction modulo max.1 left out
CellIterator_next_y_unreduced(it) ==
    IF it.cur = it.max[1] * it.max[2] * it.max[3]
    THEN [self |-> it, item |-> None]
    ELSE LET x == it.cur % it.max[1]
             y == it.cur \div it.max[1]
             z == (it.cur \div it.max[1]) \div it.max[2]
         IN  [self |-> [it EXCEPT !.cur = it.cur + 1], item |-> Some(<<x, y, z>>)]

CellIterator_next(it) ==
    IF it.cur = it.max[1] * it.max[2] * it.max[3]
    THEN [self |-> it, item |-> None]
    ELSE LET x == it.cur % it.max[1]
             y == (it.cur \div it.max[1]) % it.max[2]
             z == (it.cur \div it.max[1]) \div it.max[2]
         IN  [self |-> [it EXCEPT !.cur = it.cur + 1], item |-> Some(<<x, y, z>>)]

SiteIterator_new(l) ==
    LET first == CellIterator_next(CellIterator_new(l))
    IN  [cell_it |-> first.self, cur_cell |-> first.item,
         cur_at |-> 0, max_at |-> l.natoms]

SiteIterator_next(it) ==
    IF it.max_at = 0 THEN [self |-> it, item |-> None]
    ELSE LET nxt == CellIterator_next(it.cell_it)
             it1 == IF it.cur_at = it.max_at
                    THEN [it EXCEPT !.cur_at = 0, !.cur_cell = nxt.item,
                                    !.cell_it = nxt.self]
                    ELSE it
             at == it1.cur_at
             it2 == [it1 EXCEPT !.cur_at = at + 1]
         IN  [self |-> it2,
              item |-> IF it2.cur_cell.some
                       THEN Some(Site(it2.cur_cell.val, at))
                       ELSE None]

sites(l) == SiteIterator_new(l)

(***************************************************************************)
(* Adjacency.  The source's vectors are 0-based: At(s, i) is s[i].         *)
(***************************************************************************)
At(s, i) == s[i + 1]

\* the outcome of an unwrap of None or of a slice out of range
Panic == [some |-> FALSE, panic |-> TRUE]

\* unwrap_or with the default 1.0 (100 hundredths)
unwrap_or_one(exchange) == IF exchange.some THEN exchange.val ELSE 100

\* exchange.unwrap_or(0.0)
unwrap_or_zero(exchange) == IF exchange.some THEN exchange.val ELSE 0

\* the inner loop of Adjacency::new: each target mapped through index (an
\* Option, unwrapped by the caller) and each coupling through unwrap_or
pnbhs_loop(l, targets) ==
    [k \in 1 .. Len(targets) |-> index(l, targets[k][1])]

pexch_loop(targets) ==
    [k \in 1 .. Len(targets) |-> unwrap_or_zero(targets[k][2])]

\* the unwraps of lattice.index(&site) in the inner loop: Panic if one fails
unwrap_all(indices, pexch) ==
    IF \A k \in 1 .. Len(indices) : indices[k].some
    THEN Some([pnbhs |-> [k \in 1 .. Len(indices) |-> indices[k].val],
               pexch |-> pexch])
    ELSE Panic

\* the unwrap of lattice.tgts(&site), then the inner loop over the targets
bonds_of(l, targets) ==
    IF ~targets.some THEN Panic
    ELSE unwrap_all(pnbhs_loop(l, targets.val), pexch_loop(targets.val))

\* the first half of the body of the for loop of Adjacency::new: the
\* neighbours and couplings of one site; Panic where an unwrap fails
site_bonds(l, site) == bonds_of(l, tgts(l, site))

Adjacency(l_lims, l_nbhs, l_exch) ==
    [lims |-> l_lims, nbhs |-> l_nbhs, exch |-> l_exch]

\* the Adjacency returned, once pc = "done"
adjacency == Adjacency(lims, nbhs, exch)

\* the push with the length of the site's list alone, the running total left out
push_bonds_no_running_total(adj, pnbhs, pexch) ==
    Adjacency(Append(adj.lims, Len(pnbhs)), adj.nbhs \o pnbhs, adj.exch \o pexch)

\* the second half of the body: lims.push(last + pnbhs.len()) and the two extends
push_bonds(adj, pnbhs, pexch) ==
    LET last == adj.lims[Len(adj.lims)]
    IN  Adjacency(Append(adj.lims, last + Len(pnbhs)),
                  adj.nbhs \o pnbhs, adj.exch \o pexch)

\* the for loop of Adjacency::new.  Its state is the iterator, the three
\* vectors and where it stands: "loop", "done" after the iterator's None,
\* "panic" after a failed unwrap.
loop_start(l) ==
    [it |-> sites(l), adj |-> Adjacency(<<0>>, <<>>, <<>>), pc |-> "loop"]

\* the end of the body: the push of the site's bonds, unless an unwrap failed
loop_push(it, adj, bonds) ==
    IF ~bonds.some THEN [it |-> it, adj |-> adj, pc |-> "panic"]
    ELSE [it |-> it,
          adj |-> push_bonds(adj, bonds.val.pnbhs, bonds.val.pexch),
          pc |-> "loop"]

\* what follows the iterator's next: the end of the loop on None, else the body
loop_body(l, adj, r) ==
    IF ~r.item.some THEN [it |-> r.self, adj |-> adj, pc |-> "done"]
    ELSE loop_push(r.self, adj, site_bonds(l, r.item.val))

\* one iteration: the iterator's next, then the body
loop_step(l, st) ==
    IF st.pc # "loop" THEN st
    ELSE loop_body(l, st.adj, SiteIterator_next(st.it))

\* n iterations, one after the other
RECURSIVE loop_run(_, _, _)
loop_run(l, st, n) ==
    IF n = 0 \/ st.pc # "loop" THEN st
    ELSE IF n = 1 THEN loop_step(l, st)
    ELSE loop_run(l, loop_run(l, st, n \div 2), n - n \div 2)

\* iterations until the loop has ended: n of them, then 2n, ...
RECURSIVE loop_to_end(_, _, _)
loop_to_end(l, st, n) ==
    IF st.pc # "loop" THEN st
    ELSE loop_to_end(l, loop_run(l, st, n), 2 * n)

\* Adjacency::new: the loop from its start to its end
Adjacency_new(l) == loop_to_end(l, loop_start(l), 1)

slice(s, low, hi) ==
    IF low <= hi /\ hi <= Len(s) THEN Some(SubSeq(s, low + 1, hi)) ELSE Panic

\* nbhs_of with the bound test too lax by one: item = lims.len() - 1 passes
nbhs_of_lax_bound(adj, item) ==
    IF item >= Len(adj.lims) THEN None
    ELSE slice(adj.nbhs, At(adj.lims, item),
               IF item + 2 <= Len(adj.lims) THEN At(adj.lims, item + 1) ELSE -1)

nbhs_of(adj, item) ==
    IF item >= Len(adj.lims) - 1 THEN None
    ELSE slice(adj.nbhs, At(adj.lims, item), At(adj.lims, item + 1))

exch_of(adj, item) ==
    IF item >= Len(adj.lims) - 1 THEN None
    ELSE slice(adj.exch, At(adj.lims, item), At(adj.lims, item + 1))

(***************************************************************************)
(* f64.  A float is an integer number of units of 2^-FracBits with at most *)
(* MantissaBits significant bits: binary floating point with round to      *)
(* nearest, ties to even, and gradual underflow, in a narrower format than *)
(* the 53 bits of the source.  Every operation is the exact result rounded *)
(* to the nearest float.  There is no overflow, NaN or infinity: a divisor *)
(* is never 0 in the specifications below.                                 *)
(***************************************************************************)
\* the number of significant bits of a float
MantissaBits == 8
\* the smallest positive float is 2^-FracBits
FracBits == 8

Abs(n) == IF n < 0 THEN -n ELSE n

Max(a, b) == IF a >= b THEN a ELSE b

RECURSIVE BitLen(_)
BitLen(n) == IF n = 0 THEN 0 ELSE 1 + BitLen(n \div 2)

\* q + 1 if the remainder r of a division by den is above the half, or at
\* the half with q odd; else q
RoundUp(q, r, den) ==
    IF 2 * r > den \/ (2 * r = den /\ q % 2 = 1) THEN q + 1 ELSE q

\* num / den (num >= 0, den > 0) rounded to the nearest integer, ties to even
RoundDiv(num, den) == RoundUp(num \div den, num % den, den)

\* the number of bits by which the integer n >= 0 exceeds the mantissa
RECURSIVE Excess(_)
Excess(n) == IF n < 2 ^ MantissaBits THEN 0 ELSE 1 + Excess(n \div 2)

\* num / den rounded to the nearest multiple of 2^k
RoundTo(num, den, k) == RoundDiv(num, den * 2 ^ k) * 2 ^ k

\* the float nearest to num / den units (num >= 0, den > 0)
f64_nearest(num, den) == RoundTo(num, den, Excess(num \div den))

\* the float nearest to the rational num / den units, of either sign
f64_round(num, den) ==
    IF (num < 0) = (den < 0)
    THEN f64_nearest(Abs(num), Abs(den))
    ELSE -f64_nearest(Abs(num), Abs(den))

\* the f64 of a decimal literal given in hundredths, as the compiler reads it
f64_lit(hundredths) == f64_round(hundredths * 2 ^ FracBits, 100)

IsF64(n) == f64_round(n, 1) = n

\* a + b evaluated in the reals, for comparison
f64_add_exact(a, b) == a + b

f64_add(a, b) == f64_round(a + b, 1)

f64_sub(a, b) == f64_round(a - b, 1)

f64_neg(a) == -a

f64_mul(a, b) == f64_round(a * b, 2 ^ FracBits)

f64_div(a, b) == f64_round(a * 2 ^ FracBits, b)

\* the largest m with m * m <= n
isqrt(n) ==
    CHOOSE m \in 0 .. 2 ^ ((BitLen(n) + 1) \div 2) : m * m <= n /\ n < (m + 1) * (m + 1)

\* sqrt(n) / 2^k rounded to the nearest integer, ties to even, m being its floor
sqrt_round(n, k, m) ==
    IF 4 * n > (2 * m + 1) * (2 * m + 1) * 4 ^ k
       \/ (4 * n = (2 * m + 1) * (2 * m + 1) * 4 ^ k /\ m % 2 = 1)
    THEN m + 1 ELSE m

\* the float nearest to the square root of n units of 2^-(2 FracBits)
sqrt_nearest(n, k) == sqrt_round(n, k, isqrt(n \div 4 ^ k)) * 2 ^ k

f64_sqrt(a) == sqrt_nearest(a * 2 ^ FracBits, Excess(isqrt(a * 2 ^ FracBits)))

\* the sum of the series of e^(-r / 2^15) from term j on, in units of 2^-15:
\* term is the term before, sum the sum so far
RECURSIVE exp_series(_, _, _, _)
exp_series(r, j, term, sum) ==
    IF j > 10 \/ term = 0 THEN sum
    ELSE exp_series(r, j + 1, RoundDiv(term * r, j * 2 ^ 15),
                    IF j % 2 = 1 THEN sum - RoundDiv(term * r, j * 2 ^ 15)
                    ELSE sum + RoundDiv(term * r, j * 2 ^ 15))

\* e^(-y / 2^15), y >= 0: y = k ln 2 + r, the series for r, then k halvings
exp_reduced(k, r) ==
    IF 15 - FracBits + k > 30 THEN 0
    ELSE f64_round(exp_series(r, 1, 2 ^ 15, 2 ^ 15), 2 ^ (15 - FracBits + k))

\* f64::exp for an argument a <= 0
exp_neg(a) ==
    exp_reduced((Abs(a) * 2 ^ (15 - FracBits)) \div 22713,
                (Abs(a) * 2 ^ (15 - FracBits)) % 22713)

\* e^(y / 2^15), y > 0: y = k ln 2 - r, the series for r, then k doublings;
\* 2^(15 - FracBits) where the result is beyond the values kept here
exp_grown(k, r) ==
    IF k + FracBits > 15 THEN 2 ^ 15
    ELSE f64_round(exp_series(r, 1, 2 ^ 15, 2 ^ 15) * 2 ^ (k + FracBits), 2 ^ 15)

\* f64::exp for an argument a > 0
exp_pos(a) ==
    exp_grown((a * 2 ^ (15 - FracBits) + 22712) \div 22713,
              ((a * 2 ^ (15 - FracBits) + 22712) \div 22713) * 22713
                  - a * 2 ^ (15 - FracBits))

\* f64::exp
f64_exp(a) == IF a <= 0 THEN exp_neg(a) ELSE exp_pos(a)

(***************************************************************************)
(* Spin (src/src/vegas/state.rs).                                          *)
(***************************************************************************)
Spin(x, y, z) == [x |-> x, y |-> y, z |-> z]

\* impl Mul for Spin: self.x * other.x + self.y * other.y + self.z * other.z
Spin_mul(self, other) ==
    f64_add(f64_add(f64_mul(self.x, other.x), f64_mul(self.y, other.y)),
            f64_mul(self.z, other.z))

\* Spin::norm
Spin_norm(self) ==
    f64_sqrt(f64_add(f64_add(f64_mul(self.x, self.x), f64_mul(self.y, self.y)),
                     f64_mul(self.z, self.z)))

\* the Spin of the components of s divided by norm
Spin_div(s, norm) == Spin(f64_div(s.x, norm), f64_div(s.y, norm), f64_div(s.z, norm))

\* the Spin of the components of s multiplied by norm
Spin_times(s, norm) == Spin(f64_mul(s.x, norm), f64_mul(s.y, norm), f64_mul(s.z, norm))

\* Spin::normalized
Spin_normalized(self) == Spin_div(self, Spin_norm(self))

\* Spin::with_norm: temp = self.normalized(), then temp.x / norm, ...
Spin_with_norm(self, norm) == Spin_div(Spin_normalized(self), norm)

\* Spin::up
Spin_up == Spin(0, 0, f64_lit(100))

\* Spin::rand, draw being the three StandardNormal samples (x, y, z)
Spin_rand(draw) == Spin_div(draw, Spin_norm(draw))

(***************************************************************************)
(* State = Vec<Spin> (src/src/vegas/state.rs).  The random constructors    *)
(* take the samples they draw: draws[i + 1] for the spin of index i.       *)
(***************************************************************************)
\* State::up
State_up(size) == [k \in 1 .. size |-> Spin_up]

\* State::rand
State_rand(size, draws) == [k \in 1 .. size |-> Spin_rand(draws[k])]

\* State::rand_with_norms; norms[i] is read for every i < size
State_rand_with_norms(size, nrms, draws) ==
    [k \in 1 .. size |-> Spin_with_norm(Spin_rand(draws[k]), At(nrms, k - 1))]

\* for item in self.iter() { x += item.x; y += item.y; z += item.z }, from
\* position k on
RECURSIVE mag_loop(_, _, _)
mag_loop(st, k, acc) ==
    IF k > Len(st) THEN acc
    ELSE mag_loop(st, k + 1,
                  <<f64_add(acc[1], st[k].x), f64_add(acc[2], st[k].y),
                    f64_add(acc[3], st[k].z)>>)

\* mag leaving out the first spin
mag_skips_first(st) == mag_loop(st, 2, <<0, 0, 0>>)

\* CommonObservables::mag for State
mag(st) == mag_loop(st, 1, <<0, 0, 0>>)

\* the Euclidean norm of the triple m
len_of(m) ==
    f64_sqrt(f64_add(f64_add(f64_mul(m[1], m[1]), f64_mul(m[2], m[2])),
                     f64_mul(m[3], m[3])))

\* CommonObservables::mag_len
mag_len(st) == len_of(mag(st))

(***************************************************************************)
(* Energy components (src/src/vegas/energy.rs).  A component is a record   *)
(* with its kind and fields.  The couplings of an Adjacency are hundredths:*)
(* f64_lit gives the float.  energy is called with index < state.len() and *)
(* state.len() = nsites, as the callers in the repository do.              *)
(***************************************************************************)
ExchangeComponent(adj, exchange) ==
    [kind |-> "ExchangeComponent", adjacency |-> adj, exchange |-> exchange]

ComplexExchangeComponent(adj) ==
    [kind |-> "ComplexExchangeComponent", adjacency |-> adj]

ComposedEnergy(a, b) == [kind |-> "ComposedEnergy", comp1 |-> a, comp2 |-> b]

\* for nb in nbhs { ene -= s * state[*nb] }, from position k of the slice on
RECURSIVE Exchange_loop(_, _, _, _, _)
Exchange_loop(st, s, nb, k, ene) ==
    IF k > Len(nb) THEN ene
    ELSE Exchange_loop(st, s, nb, k + 1, f64_sub(ene, Spin_mul(s, At(st, nb[k]))))

\* ExchangeComponent::energy without the product by self.exchange
Exchange_energy_no_coupling(self, st, i) ==
    Exchange_loop(st, At(st, i), nbhs_of(self.adjacency, i).val, 1, 0)

\* ExchangeComponent::energy
Exchange_energy(self, st, i) ==
    f64_mul(Exchange_loop(st, At(st, i), nbhs_of(self.adjacency, i).val, 1, 0),
            self.exchange)

\* for (nb, exc) in nbhs.zip(exch) { ene -= exc * (s * state[*nb]) }
RECURSIVE ComplexExchange_loop(_, _, _, _, _, _)
ComplexExchange_loop(st, s, nb, ex, k, ene) ==
    IF k > Len(nb) \/ k > Len(ex) THEN ene
    ELSE ComplexExchange_loop(st, s, nb, ex, k + 1,
             f64_sub(ene, f64_mul(f64_lit(ex[k]), Spin_mul(s, At(st, nb[k])))))

\* ComplexExchangeComponent::energy zipping the neighbours of the site with
\* the head of the whole coupling array instead of the site's slice of it
ComplexExchange_energy_flat_coupling(self, st, i) ==
    ComplexExchange_loop(st, At(st, i), nbhs_of(self.adjacency, i).val,
                         self.adjacency.exch, 1, 0)

\* ComplexExchangeComponent::energy
ComplexExchange_energy(self, st, i) ==
    ComplexExchange_loop(st, At(st, i), nbhs_of(self.adjacency, i).val,
                         exch_of(self.adjacency, i).val, 1, 0)

RECURSIVE energy(_, _, _)

\* ComposedEnergy::energy giving the energy of its first component alone
Composed_energy_first_only(self, st, i) == energy(self.comp1, st, i)

\* ComposedEnergy::energy
Composed_energy(self, st, i) ==
    f64_add(energy(self.comp1, st, i), energy(self.comp2, st, i))

\* self.energy(state, index), by the type of self
energy(self, st, i) ==
    CASE self.kind = "ExchangeComponent" -> Exchange_energy(self, st, i)
      [] self.kind = "ComplexExchangeComponent" -> ComplexExchange_energy(self, st, i)
      [] self.kind = "ComposedEnergy" -> Composed_energy(self, st, i)

\* for i in 0..state.len() { total += self.energy(state, i) }, from i on
RECURSIVE total_loop(_, _, _, _)
total_loop(self, st, i, total) ==
    IF i >= Len(st) THEN total
    ELSE total_loop(self, st, i + 1, f64_add(total, energy(self, st, i)))

\* the total_energy the trait EnergyComponent provides: the sum alone
default_total_energy(self, st) == total_loop(self, st, 0, 0)

\* ExchangeComponent::total_energy
Exchange_total_energy(self, st) == f64_mul(f64_lit(50), total_loop(self, st, 0, 0))

\* ComplexExchangeComponent::total_energy
ComplexExchange_total_energy(self, st) ==
    f64_mul(f64_lit(50), total_loop(self, st, 0, 0))

RECURSIVE total_energy(_, _)

\* ComposedEnergy::total_energy
Composed_total_energy(self, st) ==
    f64_add(total_energy(self.comp1, st), total_energy(self.comp2, st))

\* self.total_energy(state), by the type of self
total_energy(self, st) ==
    CASE self.kind = "ExchangeComponent" -> Exchange_total_energy(self, st)
      [] self.kind = "ComplexExchangeComponent" -> ComplexExchange_total_energy(self, st)
      [] self.kind = "ComposedEnergy" -> Composed_total_energy(self, st)

\* the three ways ExchangeComponent::energy(state, index) aborts: state[index]
\* out of range, the unwrap of nbhs_of's None (or its slice out of range),
\* state[*nb] out of range
Exchange_energy_aborts(self, st, i) ==
    \/ i >= Len(st)
    \/ ~nbhs_of(self.adjacency, i).some
    \/ \E k \in 1 .. Len(nbhs_of(self.adjacency, i).val) :
           nbhs_of(self.adjacency, i).val[k] >= Len(st)

\* ComplexExchangeComponent::energy unwraps exch_of too
ComplexExchange_energy_aborts(self, st, i) ==
    \/ Exchange_energy_aborts(self, st, i)
    \/ ~exch_of(self.adjacency, i).some

RECURSIVE energy_aborts(_, _, _)
energy_aborts(self, st, i) ==
    CASE self.kind = "ExchangeComponent" -> Exchange_energy_aborts(self, st, i)
      [] self.kind = "ComplexExchangeComponent" -> ComplexExchange_energy_aborts(self, st, i)
      [] self.kind = "ComposedEnergy" ->
             energy_aborts(self.comp1, st, i) \/ energy_aborts(self.comp2, st, i)

\* total_energy calls energy on every index below state.len()
total_energy_aborts(self, st) ==
    \E i \in 0 .. Len(st) - 1 : energy_aborts(self, st, i)

\* a call of energy: the abort, or the value returned
energy_call(self, st, i) ==
    IF energy_aborts(self, st, i) THEN Panic ELSE Some(energy(self, st, i))

\* a call of total_energy: the abort, or the value returned
total_energy_call(self, st) ==
    IF total_energy_aborts(self, st) THEN Panic ELSE Some(total_energy(self, st))

(***************************************************************************)
(* The lattices and sites the specifications range over.                   *)
(***************************************************************************)
Triples(S) == {<<a, b, c>> : a \in S, b \in S, c \in S}

Shapes == Triples(0 .. MaxDim)

\* every lattice the builder can finalize within the bounds, over `lists`
Lattices(lists) ==
    {Lattice(pbc, shape, natoms, vertices) :
        pbc \in Triples(BOOLEAN), shape \in Shapes,
        natoms \in 0 .. MaxAtoms, vertices \in lists}

\* super_mod has a value for a positive modulo only: the lattices inside is
\* called on have at least one cell along every periodic axis
Wrappable(l) == \A a \in 1 .. 3 : l.pbc[a] => l.shape[a] >= 1

QueryLattices == {l \in Lattices({ProbeVertices}) : Wrappable(l)}

\* the sites inside, index and tgts are called on: coordinates below 0, in
\* range and at or beyond the shape, atoms in and out of range
QuerySites ==
    {Site(cell, atom) : cell \in Triples(-1 .. MaxDim),
                        atom \in 0 .. MaxAtoms}

test_big_magnetite_lattice ==
    Lattice(<<TRUE, TRUE, TRUE>>, <<4, 4, 4>>, 27, list_for_manganite)

NoSite == Site(<<0, 0, 0>>, 0)

NoIter == [cell_it |-> [cur |-> 0, max |-> <<0, 0, 0>>], cur_cell |-> None,
           cur_at |-> 0, max_at |-> 0]

(***************************************************************************)
(* SpecQuery: calls of inside, index and tgts on a lattice.                *)
(***************************************************************************)
IdleQuery == call = [op |-> "none", site |-> NoSite, result |-> None]

IdleSites == iter = NoIter /\ emitted = <<>> /\ done = FALSE /\ prev = None

NoTerm == [kind |-> "none"]

IdleEnergy ==
    /\ state = <<>>
    /\ hamiltonian = NoTerm
    /\ ecall = [op |-> "none", i |-> 0, result |-> 0]

NoSpin == [x |-> 0, y |-> 0, z |-> 0]

IdleObs ==
    /\ norms = <<>>
    /\ scall = [op |-> "none", self |-> NoSpin, norm |-> 0, result |-> NoSpin]
    /\ obs = [op |-> "none", state |-> <<>>, result |-> 0]

IdleInteg ==
    /\ temperature = 0
    /\ tcall = [op |-> "none", delta |-> 0, before |-> 0, result |-> 0]
    /\ driver = [pc |-> "idle", k |-> 0, floor |-> 0, delta |-> 0]
    /\ trace = <<>>

IdlePhys == IdleEnergy /\ IdleObs /\ IdleInteg

IdleAdj ==
    /\ pc = "idle"
    /\ lims = <<>>
    /\ nbhs = <<>>
    /\ exch = <<>>
    /\ lookup = [op |-> "none", item |-> 0, result |-> None]

InitQuery ==
    /\ latt \in QueryLattices
    /\ IdleQuery
    /\ IdleSites
    /\ IdleAdj
    /\ IdlePhys

CallInside(site) ==
    /\ call' = [op |-> "inside", site |-> site, result |-> inside(latt, site)]
    /\ UNCHANGED <<latt, sitesVars, adjVars, physVars>>

CallIndex(site) ==
    /\ call' = [op |-> "index", site |-> site, result |-> index(latt, site)]
    /\ UNCHANGED <<latt, sitesVars, adjVars, physVars>>

CallTgts(site) ==
    /\ call' = [op |-> "tgts", site |-> site, result |-> tgts(latt, site)]
    /\ UNCHANGED <<latt, sitesVars, adjVars, physVars>>

\* one call per behaviour: the three functions are pure
NextQuery ==
    /\ IdleQuery
    /\ \E site \in QuerySites :
        \/ CallInside(site)
        \/ CallIndex(site)
        \/ CallTgts(site)

SpecQuery == InitQuery /\ [][NextQuery]_vars

(***************************************************************************)
(* SpecSites: a caller of sites() that drains the iterator, keeps calling  *)
(* next after its end, and calls sites() again.                            *)
(***************************************************************************)
InitSites ==
    /\ latt \in Lattices({list_for_cubic})
    /\ IdleQuery
    /\ iter = sites(latt)
    /\ emitted = <<>>
    /\ done = FALSE
    /\ prev = None
    /\ IdleAdj
    /\ IdlePhys

CallSites ==
    /\ iter' = sites(latt)
    /\ emitted' = <<>>
    /\ done' = FALSE
    /\ prev' = IF done THEN Some(emitted) ELSE prev
    /\ UNCHANGED <<latt, queryVars, adjVars, physVars>>

IterNext ==
    LET r == SiteIterator_next(iter)
    IN  /\ iter' = r.self
        /\ emitted' = IF r.item.some THEN Append(emitted, r.item.val) ELSE emitted
        /\ done' = (done \/ ~r.item.some)
        /\ UNCHANGED <<latt, queryVars, prev, adjVars, physVars>>

NextSites == CallSites \/ IterNext

SpecSites == InitSites /\ [][NextSites]_vars

(***************************************************************************)
(* Spec: Adjacency::new(lattice), then lookups in the Adjacency returned.   *)
(***************************************************************************)
AdjLattices == Lattices({list_for_cubic, list_for_honeycomb, ProbeVertices})

InitAdj(lattices) ==
    /\ latt \in lattices
    /\ IdleQuery
    /\ IdleSites
    /\ pc = "start"
    /\ lims = <<>>
    /\ nbhs = <<>>
    /\ exch = <<>>
    /\ lookup = [op |-> "none", item |-> 0, result |-> None]
    /\ IdlePhys

Init == InitAdj(AdjLattices)

\* Adjacency::new(&latt), from the call to the return (or to the abort)
AdjNew ==
    /\ pc = "start"
    /\ \E end \in {Adjacency_new(latt)} :
           /\ pc' = end.pc
           /\ IF end.pc = "done"
              THEN /\ lims' = end.adj.lims
                   /\ nbhs' = end.adj.nbhs
                   /\ exch' = end.adj.exch
              ELSE UNCHANGED <<lims, nbhs, exch>>
    /\ UNCHANGED <<latt, queryVars, sitesVars, lookup, physVars>>

LookupNbhs(item) ==
    /\ pc = "done"
    /\ lookup' = [op |-> "nbhs_of", item |-> item, result |-> nbhs_of(adjacency, item)]
    /\ UNCHANGED <<latt, queryVars, sitesVars, pc, lims, nbhs, exch, physVars>>

LookupExch(item) ==
    /\ pc = "done"
    /\ lookup' = [op |-> "exch_of", item |-> item, result |-> exch_of(adjacency, item)]
    /\ UNCHANGED <<latt, queryVars, sitesVars, pc, lims, nbhs, exch, physVars>>

\* one lookup per behaviour: nbhs_of and exch_of are pure
Next ==
    \/ AdjNew
    \/ /\ lookup.op = "none"
       /\ \E item \in 0 .. nsites(latt) + 1 : LookupNbhs(item) \/ LookupExch(item)

Spec == Init /\ [][Next]_vars

(***************************************************************************)
(* SpecSize: Adjacency::new on the same lattices and on the lattice of the *)
(* test test_big_magnetite.                                                *)
(***************************************************************************)
InitSize == InitAdj(AdjLattices \cup {test_big_magnetite_lattice})

SpecSize == InitSize /\ [][Next]_vars

(***************************************************************************)
(* SpecSymmetric: Adjacency::new and the lookups on lattices whose vertex  *)
(* list is the cubic table, the hcp table or the list ProbeVertices, and   *)
(* on lattices with three cells along an axis.                             *)
(***************************************************************************)
SymmetricLattices ==
    Lattices({list_for_cubic, list_for_hcp, ProbeVertices}) \cup
    {Lattice(pbc, shape, 2, vertices) :
         pbc \in Triples(BOOLEAN), shape \in {<<3, 1, 1>>, <<1, 3, 2>>, <<2, 1, 3>>},
         vertices \in {list_for_hcp, list_for_honeycomb, ProbeVertices}}

InitSymmetric == InitAdj(SymmetricLattices)

SpecSymmetric == InitSymmetric /\ [][Next]_vars

(***************************************************************************)
(* SpecEnergy: Adjacency::new(lattice), a State of nsites spins, an energy *)
(* term over the Adjacency (an exchange component, a ComposedEnergy of two *)
(* or the ComposedEnergy of such a pair and a third), then one call of     *)
(* energy or total_energy.                                                 *)
(***************************************************************************)
\* the largest number of sites of a lattice of SpecEnergy
MaxSites == 3

\* the calls made on an integrator
MaxCalls == 4

\* the sweeps of one block of the annealing loop (1000 in main)
MaxSweeps == 2

EnergyLattices ==
    {l \in Lattices({list_for_cubic, ProbeVertices}) :
        nsites(l) >= 1 /\ nsites(l) <= MaxSites}

\* the spins of a State: +z, +x and an oblique spin of another length
EnergySpins ==
    {Spin(0, 0, f64_lit(100)), Spin(f64_lit(100), 0, 0),
     Spin(f64_lit(50), f64_lit(-150), f64_lit(75))}

States(n) == [1 .. n -> EnergySpins]

\* the couplings of an ExchangeComponent
ExchangeValues == {f64_lit(25), f64_lit(6400)}

Components(adj) ==
    {ExchangeComponent(adj, j) : j \in ExchangeValues}
        \cup {ComplexExchangeComponent(adj)}

Hamiltonians(adj) ==
    Components(adj)
        \cup {ComposedEnergy(a, b) : a \in Components(adj), b \in Components(adj)}
        \cup {ComposedEnergy(ComposedEnergy(a, b), c) :
                 a \in Components(adj), b \in Components(adj), c \in Components(adj)}

InitEnergy ==
    /\ latt \in EnergyLattices
    /\ IdleQuery
    /\ IdleSites
    /\ pc = "start"
    /\ lims = <<>>
    /\ nbhs = <<>>
    /\ exch = <<>>
    /\ lookup = [op |-> "none", item |-> 0, result |-> None]
    /\ IdlePhys

\* a State of latt.nsites() spins
NewState(st) ==
    /\ state' = st
    /\ UNCHANGED <<latt, queryVars, sitesVars, adjVars, hamiltonian, ecall, obsVars, integVars>>

\* the term the simulation evaluates, built over the Adjacency
NewHamiltonian(term) ==
    /\ hamiltonian' = term
    /\ UNCHANGED <<latt, queryVars, sitesVars, adjVars, state, ecall, obsVars, integVars>>

\* hamiltonian.energy(&state, i)
CallEnergy(i) ==
    /\ ecall' = [op |-> "energy", i |-> i, result |-> energy(hamiltonian, state, i)]
    /\ UNCHANGED <<latt, queryVars, sitesVars, adjVars, state, hamiltonian, obsVars, integVars>>

\* hamiltonian.total_energy(&state)
CallTotalEnergy ==
    /\ ecall' = [op |-> "total_energy", i |-> 0,
                 result |-> total_energy(hamiltonian, state)]
    /\ UNCHANGED <<latt, queryVars, sitesVars, adjVars, state, hamiltonian, obsVars, integVars>>

\* one state, one term and one call per behaviour: the calls are pure
NextEnergy ==
    \/ AdjNew
    \/ /\ pc = "done" /\ state = <<>>
       /\ \E st \in States(nsites(latt)) : NewState(st)
    \/ /\ state # <<>> /\ hamiltonian = NoTerm
       /\ \E term \in Hamiltonians(adjacency) : NewHamiltonian(term)
    \/ /\ hamiltonian # NoTerm /\ ecall.op = "none"
       /\ \/ \E i \in 0 .. Len(state) - 1 : CallEnergy(i)
          \/ CallTotalEnergy

SpecEnergy == InitEnergy /\ [][NextEnergy]_vars

(***************************************************************************)
(* SpecState: the spins and states of src/src/vegas/state.rs.  A state is  *)
(* built by one of its constructors, the random ones from the samples they *)
(* draw (never three zeros, an event of probability zero), and is then     *)
(* observed; with_norm is also called on spins directly.                   *)
(***************************************************************************)
\* the samples one Spin::rand may draw
Draws ==
    {Spin(0, 0, f64_lit(100)), Spin(f64_lit(100), f64_lit(100), 0),
     Spin(f64_lit(-50), f64_lit(150), f64_lit(75))}

\* magnitudes: 1.0, 2.0 and 2.5 as in main, 16.0, and 1/16
NormValues ==
    {f64_lit(100), f64_lit(200), f64_lit(250), f64_lit(1600),
     f64_div(f64_lit(100), f64_lit(1600))}

\* the spins with_norm is called on: unit spins and spins of other lengths
ProbeSpins == {Spin_rand(d) : d \in Draws} \cup Draws

InitState ==
    /\ latt = CHOOSE l \in EnergyLattices : l.natoms = 1 /\ nsites(l) = 1
    /\ IdleQuery
    /\ IdleSites
    /\ IdleAdj
    /\ IdlePhys

\* s.with_norm(m)
CallWithNorm(s, m) ==
    /\ scall' = [op |-> "with_norm", self |-> s, norm |-> m,
                 result |-> Spin_with_norm(s, m)]
    /\ UNCHANGED <<latt, queryVars, sitesVars, adjVars, energyVars, norms, obs, integVars>>

\* state = State::up(size)
StateUp(size) ==
    /\ state' = State_up(size)
    /\ UNCHANGED <<latt, queryVars, sitesVars, adjVars, hamiltonian, ecall, obsVars, integVars>>

\* state = State::rand(size)
StateRand(size, draws) ==
    /\ state' = State_rand(size, draws)
    /\ UNCHANGED <<latt, queryVars, sitesVars, adjVars, hamiltonian, ecall, obsVars, integVars>>

\* state = State::rand_with_norms(size, &nrms)
StateRandWithNorms(size, nrms, draws) ==
    /\ state' = State_rand_with_norms(size, nrms, draws)
    /\ norms' = nrms
    /\ UNCHANGED <<latt, queryVars, sitesVars, adjVars, hamiltonian, ecall, scall, obs, integVars>>

\* state.mag()
CallMag ==
    /\ obs' = [op |-> "mag", state |-> state, result |-> mag(state)]
    /\ UNCHANGED <<latt, queryVars, sitesVars, adjVars, energyVars, norms, scall, integVars>>

\* state.mag_len()
CallMagLen ==
    /\ obs' = [op |-> "mag_len", state |-> state, result |-> mag_len(state)]
    /\ UNCHANGED <<latt, queryVars, sitesVars, adjVars, energyVars, norms, scall, integVars>>

\* a behaviour is one direct with_norm call, or one construction and one
\* observation
NextState ==
    \/ /\ scall.op = "none" /\ state = <<>> /\ obs.op = "none"
       /\ \E s \in ProbeSpins, m \in NormValues : CallWithNorm(s, m)
    \/ /\ scall.op = "none" /\ state = <<>> /\ obs.op = "none"
       /\ \E size \in 0 .. MaxSites :
              \/ StateUp(size)
              \/ \E draws \in [1 .. size -> Draws] :
                     \/ StateRand(size, draws)
                     \/ \E nrms \in [1 .. size -> NormValues] :
                            StateRandWithNorms(size, nrms, draws)
    \/ /\ scall.op = "none" /\ obs.op = "none"
       /\ (CallMag \/ CallMagLen)

SpecState == InitState /\ [][NextState]_vars

(***************************************************************************)
(* The Metropolis integrator (vegas::integrator, used by main.rs; its      *)
(* source is not part of the tree, so it is taken from section 4.5 of the  *)
(* documentation): a temperature, one sweep per step, an explicit cool.    *)
(***************************************************************************)
\* MetropolisIntegrator::new(temp)
MetropolisIntegrator_new(temp) == temp

\* temp(): the current temperature
Integrator_temp(t) == t

\* cool raising the temperature
Integrator_cool_adds(t, delta) == f64_add(t, delta)

\* cool(delta): temperature -= delta
Integrator_cool(t, delta) == f64_sub(t, delta)

\* the proposal for site i: a fresh random direction at the magnitude of the
\* current spin
proposal(st, i, draw) == Spin_times(Spin_rand(draw), Spin_norm(At(st, i)))

\* the state with the spin of site i replaced by p
with_proposal(st, i, p) == [st EXCEPT ![i + 1] = p]

\* delta = energy(state_with_proposal, i) - energy(state, i)
energy_delta(h, st, i, p) ==
    f64_sub(energy(h, with_proposal(st, i, p), i), energy(h, st, i))

\* the uniform draws of the model: 0.0, 0.5 and the largest f64 below 1.0
Uniforms == {0, f64_lit(50), f64_lit(100) - 1}

\* exp(-delta / temperature); at temperature 0.0 the quotient of a positive
\* delta is infinite and the exponential 0.0
acceptance(delta, t) ==
    IF t = 0 THEN 0 ELSE f64_exp(f64_div(f64_neg(delta), t))

\* the rule that never accepts a rise of the energy
accepts_downhill_only(delta, t, u) == delta <= 0

\* accept unconditionally if delta <= 0, otherwise when the uniform draw u is
\* below exp(-delta / temperature)
accepts(delta, t, u) == delta <= 0 \/ u < acceptance(delta, t)

\* the proposal p for site i of st with the draw u, delta being its energy
\* difference: what was decided and the state after it
attempt(st, t, i, p, u, delta) ==
    [site |-> i, before |-> st, proposal |-> p, delta |-> delta, u |-> u,
     accepted |-> accepts(delta, t, u),
     after |-> IF accepts(delta, t, u) THEN with_proposal(st, i, p) ELSE st]

\* the ways the proposal for site i can go
attempts(h, st, t, i) ==
    {attempt(st, t, i, p, u, energy_delta(h, st, i, p)) :
         p \in {proposal(st, i, draw) : draw \in Draws}, u \in Uniforms}

\* the sweep deciding every proposal on the state the sweep started from
RECURSIVE sweep_from_stale(_, _, _, _, _)
sweep_from_stale(h, st, t, i, tr) ==
    IF i >= Len(st) THEN {[state |-> st, trace |-> tr]}
    ELSE UNION {sweep_from_stale(h, IF a.accepted THEN with_proposal(st, i, a.proposal)
                                    ELSE st,
                                 t, i + 1,
                                 Append(tr, [a EXCEPT !.before = st,
                                                      !.after = IF a.accepted
                                                                THEN with_proposal(st, i, a.proposal)
                                                                ELSE st])) :
                    a \in attempts(h, IF tr = <<>> THEN st ELSE tr[1].before, t, i)}

\* the sweep that leaves out the last site
RECURSIVE sweep_from_short(_, _, _, _, _)
sweep_from_short(h, st, t, i, tr) ==
    IF i >= Len(st) - 1 THEN {[state |-> st, trace |-> tr]}
    ELSE UNION {sweep_from_short(h, a.after, t, i + 1, Append(tr, a)) :
                    a \in attempts(h, st, t, i)}

\* the ways a sweep can go from site i on, tr being the proposals made so
\* far: one proposal per site, in the order of the sites, later proposals
\* seeing the earlier accepted ones
RECURSIVE sweep_from(_, _, _, _, _)
sweep_from(h, st, t, i, tr) ==
    IF i >= Len(st) THEN {[state |-> st, trace |-> tr]}
    ELSE UNION {sweep_from(h, a.after, t, i + 1, Append(tr, a)) :
                    a \in attempts(h, st, t, i)}

\* one sweep: the state it ends in and the proposals it made
Integrator_sweep(h, st, t) == sweep_from(h, st, t, 0, <<>>)

\* step(hamiltonian, state): the state one sweep ends in
Integrator_step(h, st, t) == {run.state : run \in Integrator_sweep(h, st, t)}

\* the three operations, as calls on the integrator of the simulation; the
\* proposals of a step are recorded when it is observed
Step(observed) ==
    /\ \E run \in Integrator_sweep(hamiltonian, state, temperature) :
           /\ state' = run.state
           /\ trace' = IF observed THEN run.trace ELSE trace
    /\ tcall' = [op |-> "step", delta |-> 0, before |-> temperature, result |-> 0]
    /\ UNCHANGED temperature

Temp ==
    /\ tcall' = [op |-> "temp", delta |-> 0, before |-> temperature,
                 result |-> Integrator_temp(temperature)]
    /\ UNCHANGED <<temperature, state, trace>>

Cool(delta) ==
    /\ temperature' = Integrator_cool(temperature, delta)
    /\ tcall' = [op |-> "cool", delta |-> delta, before |-> temperature, result |-> 0]
    /\ UNCHANGED <<state, trace>>

\* what main has constructed when its loop starts: the lattice l, the
\* adjacency, the hamiltonian, the integrator at temperature t and the state
Constructed(l, t, nrms, draws) ==
    /\ latt = l
    /\ IdleQuery
    /\ IdleSites
    /\ pc = "done"
    /\ \E end \in {Adjacency_new(l)} :
           /\ lims = end.adj.lims
           /\ nbhs = end.adj.nbhs
           /\ exch = end.adj.exch
           /\ hamiltonian = ComplexExchangeComponent(end.adj)
    /\ lookup = [op |-> "none", item |-> 0, result |-> None]
    /\ state = State_rand_with_norms(nsites(l), nrms, draws)
    /\ norms = nrms
    /\ ecall = [op |-> "none", i |-> 0, result |-> 0]
    /\ scall = [op |-> "none", self |-> NoSpin, norm |-> 0, result |-> NoSpin]
    /\ obs = [op |-> "none", state |-> <<>>, result |-> 0]
    /\ temperature = MetropolisIntegrator_new(t)
    /\ tcall = [op |-> "none", delta |-> 0, before |-> 0, result |-> 0]
    /\ trace = <<>>

(***************************************************************************)
(* SpecIntegrator: any sequence of at most MaxCalls calls of step, temp    *)
(* and cool(delta), delta > 0, on an integrator.                           *)
(***************************************************************************)
\* the lattices of the integrator's specifications: cubic, periodic, n sites
AnnealLattices(n) ==
    {l \in EnergyLattices : l.natoms = 1 /\ nsites(l) = n /\ l.pbc = <<TRUE, TRUE, TRUE>>
                            /\ l.vertices = list_for_cubic}

\* temperatures an integrator starts at: 100.0 as in main, 12.5, 64.0
StartTemperatures == {f64_lit(10000), f64_lit(1250), f64_lit(6400)}

\* cooling increments: 2.5 as in main, 0.25, 40.0
Increments == {f64_lit(250), f64_lit(25), f64_lit(4000)}

InitIntegrator ==
    /\ \E l \in AnnealLattices(1), t \in StartTemperatures :
           Constructed(l, t, <<f64_lit(100)>>, <<Spin(0, 0, f64_lit(100))>>)
    /\ driver = [pc |-> "free", k |-> 0, floor |-> 0, delta |-> 0]

Called == driver' = [driver EXCEPT !.k = @ + 1]

CallStep ==
    /\ Step(FALSE) /\ Called
    /\ UNCHANGED <<latt, queryVars, sitesVars, adjVars, hamiltonian, ecall, obsVars>>

CallTemp ==
    /\ Temp /\ Called
    /\ UNCHANGED <<latt, queryVars, sitesVars, adjVars, hamiltonian, ecall, obsVars>>

CallCool(delta) ==
    /\ Cool(delta) /\ Called
    /\ UNCHANGED <<latt, queryVars, sitesVars, adjVars, hamiltonian, ecall, obsVars>>

NextIntegrator ==
    /\ driver.k < MaxCalls
    /\ \/ CallStep
       \/ CallTemp
       \/ \E delta \in Increments : CallCool(delta)

SpecIntegrator == InitIntegrator /\ [][NextIntegrator]_vars

(***************************************************************************)
(* SpecAnneal: the annealing loop of main (src/src/bin/main.rs), a block   *)
(* of sweeps, the floor test, then cool, from the start temperatures,      *)
(* floors and increments below.  The program runs on until the loop        *)
(* exits, hence the weak fairness on the steps of the loop.                *)
(***************************************************************************)
\* temperature floors: 10.0 as in main, 60.0
Floors == {f64_lit(1000), f64_lit(6000)}

InitAnneal ==
    /\ \E l \in AnnealLattices(1), t \in StartTemperatures :
           Constructed(l, t, <<f64_lit(100)>>, <<Spin(0, 0, f64_lit(100))>>)
    /\ \E floor \in Floors, delta \in Increments :
           driver = [pc |-> "sweep", k |-> 0, floor |-> floor, delta |-> delta]

\* the floor test that also breaks at the floor itself
below_or_at_floor(t, floor) == t <= floor

\* the floor test with the comparison turned round
below_floor_inverted(t, floor) == t > floor

\* integrator.temp() < 10.0
below_floor(t, floor) == t < floor

\* state = integrator.step(&hamiltonian, &state), inside for _ in 0..1000
MainSweep ==
    /\ driver.pc = "sweep"
    /\ Step(FALSE)
    /\ driver' = [driver EXCEPT !.k = @ + 1,
                                !.pc = IF driver.k + 1 >= MaxSweeps THEN "test" ELSE "sweep"]
    /\ UNCHANGED <<latt, queryVars, sitesVars, adjVars, hamiltonian, ecall, obsVars>>

\* if integrator.temp() < 10.0 { break }
MainFloorTest ==
    /\ driver.pc = "test"
    /\ Temp
    /\ driver' = [driver EXCEPT !.pc = IF below_floor(Integrator_temp(temperature),
                                                      driver.floor)
                                       THEN "exit" ELSE "cool"]
    /\ UNCHANGED <<latt, queryVars, sitesVars, adjVars, hamiltonian, ecall, obsVars>>

\* integrator.cool(2.5), then the next block
MainCool ==
    /\ driver.pc = "cool"
    /\ Cool(driver.delta)
    /\ driver' = [driver EXCEPT !.pc = "sweep", !.k = 0]
    /\ UNCHANGED <<latt, queryVars, sitesVars, adjVars, hamiltonian, ecall, obsVars>>

NextAnneal == MainSweep \/ MainFloorTest \/ MainCool

\* a step of the loop, by what it does to the driver: every step of
\* NextAnneal is one, and one is possible until the loop has exited
LoopStep ==
    /\ driver.pc # "exit"
    /\ \E p \in {"sweep", "test", "cool", "exit"}, k \in 0 .. MaxSweeps :
           driver' = [driver EXCEPT !.pc = p, !.k = k]
    /\ driver' # driver

SpecAnneal == InitAnneal /\ [][NextAnneal]_vars /\ WF_driver(LoopStep)

(***************************************************************************)
(* SpecMain: the loop of main as configured: 1000 sweeps per block, start  *)
(* at 100.0, floor 10.0, cool(2.5).  Nothing runs beside main, and a block *)
(* of sweeps is one step here.  The driver also keeps what main has        *)
(* printed: one line per sweep, the blocks parted by the empty line that   *)
(* follows each cool; each block is logged with the number of its lines    *)
(* and the temperature its sweeps ran at.                                  *)
(***************************************************************************)
\* for _ in 0..1000
MainSweeps == 1000

InitMain ==
    /\ \E l \in AnnealLattices(1) :
           Constructed(l, f64_lit(10000), <<f64_lit(100)>>, <<Spin(0, 0, f64_lit(100))>>)
    /\ driver = [pc |-> "sweep", k |-> 0, floor |-> f64_lit(1000), delta |-> f64_lit(250),
                 log |-> <<>>]

\* the states the sweeps of a block can leave.  S holds the states the
\* sweeps made so far can have left and k is the number of sweeps still to
\* make; once a sweep maps S onto itself the remaining sweeps do so too.
RECURSIVE sweeps_from(_, _, _, _)
settled(h, S, after, t, k) ==
    IF after = S THEN S ELSE sweeps_from(h, after, t, k - 1)

sweeps_from(h, S, t, k) ==
    IF k = 0 THEN S
    ELSE settled(h, S, UNION {Integrator_step(h, st, t) : st \in S}, t, k)

\* for _ in 0..1000 { state = integrator.step(&hamiltonian, &state);
\* println!(...) }: the block from its first sweep to its last, logged with
\* the lines it printed
RunBlock ==
    /\ driver.pc = "sweep"
    /\ state' \in sweeps_from(hamiltonian, {state}, temperature, MainSweeps)
    /\ tcall' = [op |-> "step", delta |-> 0, before |-> temperature, result |-> 0]
    /\ driver' = [driver EXCEPT !.k = MainSweeps, !.pc = "test",
                                !.log = Append(driver.log,
                                               [temperature |-> temperature,
                                                sweeps |-> MainSweeps,
                                                cooled |-> FALSE])]
    /\ UNCHANGED <<latt, queryVars, sitesVars, adjVars, hamiltonian, ecall, obsVars,
                   temperature, trace>>

\* integrator.cool(2.5); println!("")
RunCool ==
    /\ driver.pc = "cool"
    /\ Cool(driver.delta)
    /\ driver' = [driver EXCEPT !.pc = "sweep", !.k = 0,
                                !.log = [driver.log EXCEPT ![Len(driver.log)].cooled = TRUE]]
    /\ UNCHANGED <<latt, queryVars, sitesVars, adjVars, hamiltonian, ecall, obsVars>>

NextMain == RunBlock \/ MainFloorTest \/ RunCool

SpecMain == InitMain /\ [][NextMain]_vars

(***************************************************************************)
(* SpecStep: one observed step of the integrator on a constructed          *)
(* simulation of two coupled sites, at a low and at a high temperature.    *)
(***************************************************************************)
\* lattices of two sites coupled by the bond 0 <-> 1 of ProbeVertices
StepLattices ==
    {l \in EnergyLattices : l.vertices = ProbeVertices /\ l.natoms = 2 /\ l.pbc[1]}

\* temperatures of the observed step: 2.0 and 100.0
StepTemperatures == {f64_lit(200), f64_lit(10000)}

InitStep ==
    /\ \E l \in StepLattices, t \in StepTemperatures :
           \E draws \in [1 .. nsites(l) -> Draws] :
               Constructed(l, t, [k \in 1 .. nsites(l) |-> f64_lit(100)], draws)
    /\ driver = [pc |-> "free", k |-> 0, floor |-> 0, delta |-> 0]

\* state = integrator.step(&hamiltonian, &state), its proposals recorded
ObservedStep ==
    /\ driver.k = 0
    /\ Step(TRUE) /\ Called
    /\ UNCHANGED <<latt, queryVars, sitesVars, adjVars, hamiltonian, ecall, obsVars>>

NextStep == ObservedStep

SpecStep == InitStep /\ [][NextStep]_vars

(***************************************************************************)
(* SpecSpins: the two per-site magnitude mappings of main, each a map over *)
(* latt.sites() collected into a vector, on the configured lattice and on  *)
(* lattices of the same kind with other shapes and numbers of atoms.       *)
(***************************************************************************)
\* the lattice main builds
main_lattice == Lattice(<<TRUE, TRUE, TRUE>>, <<5, 5, 5>>, 24, list_for_magnetite)

\* the match of spins with 2.5 in the arm of every other atom id
match_atom_defaults(which, atom) ==
    IF which = "spins" /\ atom \in {2, 5, 14, 15, 17, 21, 22, 23} THEN Some(f64_lit(200))
    ELSE IF which = "_manganite_spins" /\ atom \in {1, 3, 8, 9, 14, 16, 20, 22, 24}
         THEN Some(f64_lit(150))
    ELSE IF which = "_manganite_spins" /\ atom \in 0 .. 26 THEN Some(f64_lit(200))
    ELSE Some(f64_lit(250))

\* match site.atom() { ... _ => panic!("oh margoth") } of the mapping which
match_atom(which, atom) ==
    IF which = "_manganite_spins"
    THEN IF atom \in {1, 3, 8, 9, 14, 16, 20, 22, 24} THEN Some(f64_lit(150))
         ELSE IF atom \in 0 .. 26 THEN Some(f64_lit(200))
         ELSE Panic
    ELSE IF atom \in {2, 5, 14, 15, 17, 21, 22, 23} THEN Some(f64_lit(200))
         ELSE IF atom \in 0 .. 23 THEN Some(f64_lit(250))
         ELSE Panic

\* latt.sites().map(...).collect(): the iterator, the sites taken from it,
\* the magnitudes collected and where the map stands: "loop", "done" after
\* the iterator's None, "panic" after the arm of the other atom ids
map_start(l) == [it |-> sites(l), sites |-> <<>>, out |-> <<>>, pc |-> "loop"]

\* the closure on one site
map_site(st, it, site, magnitude) ==
    IF ~magnitude.some
    THEN [it |-> it, sites |-> Append(st.sites, site), out |-> st.out, pc |-> "panic"]
    ELSE [it |-> it, sites |-> Append(st.sites, site),
          out |-> Append(st.out, magnitude.val), pc |-> "loop"]

\* what follows the iterator's next
map_body(which, st, r) ==
    IF ~r.item.some THEN [st EXCEPT !.it = r.self, !.pc = "done"]
    ELSE map_site(st, r.self, r.item.val, match_atom(which, r.item.val.atom))

map_step(which, st) ==
    IF st.pc # "loop" THEN st
    ELSE map_body(which, st, SiteIterator_next(st.it))

\* n sites, one after the other
RECURSIVE map_run(_, _, _)
map_run(which, st, n) ==
    IF n = 0 \/ st.pc # "loop" THEN st
    ELSE IF n = 1 THEN map_step(which, st)
    ELSE map_run(which, map_run(which, st, n \div 2), n - n \div 2)

RECURSIVE map_to_end(_, _, _)
map_to_end(which, st, n) ==
    IF st.pc # "loop" THEN st
    ELSE map_to_end(which, map_run(which, st, n), 2 * n)

map_collect(l, which) == map_to_end(which, map_start(l), 1)

\* numbers of atoms on both sides of the 24 of spins and the 27 of
\* _manganite_spins
SpinAtoms == {0, 1, 23, 24, 25, 26, 27, 28}

SpinLattices ==
    {main_lattice} \cup
    {Lattice(<<TRUE, TRUE, TRUE>>, shape, natoms, list_for_magnetite) :
         shape \in Triples(1 .. 2) \cup {<<0, 1, 1>>}, natoms \in SpinAtoms}

InitSpins ==
    /\ latt \in SpinLattices
    /\ IdleQuery
    /\ IdleSites
    /\ IdleAdj
    /\ IdleEnergy
    /\ IdleObs
    /\ temperature = 0
    /\ tcall = [op |-> "none", delta |-> 0, before |-> 0, result |-> 0]
    /\ trace = <<>>
    /\ driver = [pc |-> "start", k |-> 0, floor |-> 0, delta |-> 0]

\* what a mapping leaves: its number, and whether main goes on
Mapped(run, next) ==
    /\ iter' = run.it
    /\ emitted' = run.sites
    /\ driver' = [driver EXCEPT !.pc = IF run.pc = "panic" THEN "aborted" ELSE next,
                                !.k = driver.k + 1]

\* let _manganite_spins: Vec<f64> = latt.sites().map(...).collect()
MapManganiteSpins ==
    /\ driver.pc = "start"
    /\ \E run \in {map_collect(latt, "_manganite_spins")} :
           /\ Mapped(run, "mapped")
           /\ obs' = [op |-> "_manganite_spins", state |-> <<>>, result |-> run.out]
    /\ UNCHANGED <<latt, queryVars, done, prev, adjVars, energyVars, norms, scall,
                   temperature, tcall, trace>>

\* let spins: Vec<f64> = latt.sites().map(...).collect()
MapSpins ==
    /\ driver.pc = "mapped"
    /\ \E run \in {map_collect(latt, "spins")} :
           /\ Mapped(run, "collected")
           /\ norms' = run.out
    /\ UNCHANGED <<latt, queryVars, done, prev, adjVars, energyVars, scall, obs,
                   temperature, tcall, trace>>

NextSpins == MapManganiteSpins \/ MapSpins

SpecSpins == InitSpins /\ [][NextSpins]_vars

(***************************************************************************)
(* SpecTables: a caller that asks for one of the built-in tables and reads *)
(* one of its entries.                                                     *)
(***************************************************************************)
TableNames ==
    {"list_for_cubic", "list_for_hcp", "list_for_honeycomb", "list_for_manganite",
     "list_for_magnetite"}

\* Vertex::list_for_...()
list_for(name) ==
    CASE name = "list_for_cubic" -> list_for_cubic
      [] name = "list_for_hcp" -> list_for_hcp
      [] name = "list_for_honeycomb" -> list_for_honeycomb
      [] name = "list_for_manganite" -> list_for_manganite
      [] name = "list_for_magnetite" -> list_for_magnetite

InitTables ==
    /\ latt = test_big_magnetite_lattice
    /\ IdleQuery
    /\ IdleSites
    /\ IdleAdj
    /\ IdlePhys

\* let vertices = Vertex::list_for_...()
CallList(name) ==
    /\ call.op = "none"
    /\ call' = [op |-> name, site |-> NoSite, result |-> Some(list_for(name))]
    /\ UNCHANGED <<latt, sitesVars, adjVars, physVars>>

\* vertices[k]
ReadVertex(k) ==
    /\ call.op \in TableNames
    /\ lookup.op = "none"
    /\ k < Len(call.result.val)
    /\ lookup' = [op |-> "vertex", item |-> k, result |-> Some(At(call.result.val, k))]
    /\ UNCHANGED <<latt, queryVars, sitesVars, pc, lims, nbhs, exch, physVars>>

NextTables ==
    \/ \E name \in TableNames : CallList(name)
    \/ \E k \in 0 .. 319 : ReadVertex(k)

SpecTables == InitTables /\ [][NextTables]_vars

(***************************************************************************)
(* SpecDelta: an exchange component over the Adjacency of a lattice, a     *)
(* state, and a caller that replaces the spin of one site and compares the *)
(* change of the site's energy with the change of the total energy.        *)
(***************************************************************************)
\* +z, +x, and two oblique spins of one length
DeltaSpins ==
    {Spin(0, 0, f64_lit(100)), Spin(f64_lit(100), 0, 0),
     Spin(f64_lit(50), f64_lit(-150), f64_lit(75)),
     Spin(f64_lit(-150), f64_lit(75), f64_lit(50))}

\* the couplings of the uniform component: 0.25 and 1.5
DeltaExchange == {f64_lit(25), f64_lit(150)}

DeltaComponents(adj) ==
    {ExchangeComponent(adj, j) : j \in DeltaExchange} \cup {ComplexExchangeComponent(adj)}

InitDelta ==
    /\ latt \in EnergyLattices
    /\ IdleQuery
    /\ IdleSites
    /\ pc = "done"
    /\ \E end \in {Adjacency_new(latt)} :
           /\ lims = end.adj.lims
           /\ nbhs = end.adj.nbhs
           /\ exch = end.adj.exch
           /\ hamiltonian \in DeltaComponents(end.adj)
    /\ lookup = [op |-> "none", item |-> 0, result |-> None]
    /\ state \in [1 .. nsites(latt) -> DeltaSpins]
    /\ ecall = [op |-> "none", i |-> 0, result |-> 0]
    /\ IdleObs
    /\ IdleInteg

\* energy(state', i) - energy(state, i) and total_energy(state') -
\* total_energy(state), state' being state with p at site i
CompareDeltas(i, p) ==
    /\ trace = <<>>
    /\ p # At(state, i)
    /\ state' = with_proposal(state, i, p)
    /\ trace' = <<[site |-> i, before |-> state, proposal |-> p,
                   after |-> with_proposal(state, i, p),
                   local |-> energy_delta(hamiltonian, state, i, p),
                   total |-> f64_sub(total_energy(hamiltonian, with_proposal(state, i, p)),
                                     total_energy(hamiltonian, state))]>>
    /\ UNCHANGED <<latt, queryVars, sitesVars, adjVars, hamiltonian, ecall, obsVars,
                   temperature, tcall, driver>>

NextDelta == \E i \in 0 .. Len(state) - 1, p \in DeltaSpins : CompareDeltas(i, p)

SpecDelta == InitDelta /\ [][NextDelta]_vars

(***************************************************************************)
(* SpecBounds: the Adjacency of a lattice, an exchange term over it, a     *)
(* state of nsites spins or of one spin less, and one call of energy, with *)
(* an index up to nsites, or of total_energy; a call aborts or returns.    *)
(***************************************************************************)
BoundsLattices ==
    {l \in Lattices({list_for_cubic, list_for_hcp, list_for_honeycomb, ProbeVertices}) :
        nsites(l) >= 1 /\ nsites(l) <= 4 * MaxAtoms}

BoundsTerms(adj) ==
    {ExchangeComponent(adj, f64_lit(150)), ComplexExchangeComponent(adj),
     ComposedEnergy(ExchangeComponent(adj, f64_lit(150)), ComplexExchangeComponent(adj))}

InitBounds ==
    /\ latt \in BoundsLattices
    /\ IdleQuery
    /\ IdleSites
    /\ pc = "done"
    /\ \E end \in {Adjacency_new(latt)} :
           /\ end.pc = "done"
           /\ lims = end.adj.lims
           /\ nbhs = end.adj.nbhs
           /\ exch = end.adj.exch
           /\ hamiltonian \in BoundsTerms(end.adj)
    /\ lookup = [op |-> "none", item |-> 0, result |-> None]
    /\ state \in {State_up(nsites(latt)), State_up(nsites(latt) - 1)}
    /\ ecall = [op |-> "none", i |-> 0, result |-> None]
    /\ IdleObs
    /\ IdleInteg

\* hamiltonian.energy(&state, i), to its return or its abort
CheckedEnergy(i) ==
    /\ ecall' = [op |-> "energy", i |-> i, result |-> energy_call(hamiltonian, state, i)]
    /\ UNCHANGED <<latt, queryVars, sitesVars, adjVars, state, hamiltonian, obsVars, integVars>>

\* hamiltonian.total_energy(&state), to its return or its abort
CheckedTotalEnergy ==
    /\ ecall' = [op |-> "total_energy", i |-> 0,
                 result |-> total_energy_call(hamiltonian, state)]
    /\ UNCHANGED <<latt, queryVars, sitesVars, adjVars, state, hamiltonian, obsVars, integVars>>

NextBounds ==
    /\ ecall.op = "none"
    /\ \/ \E i \in 0 .. nsites(latt) : CheckedEnergy(i)
       \/ CheckedTotalEnergy

SpecBounds == InitBounds /\ [][NextBounds]_vars

(***************************************************************************)
(* The properties.  The helpers below state what the documentation says of *)
(* a site, without the code: which axes hold the coordinate in range, and  *)
(* the sites of the first image.                                           *)
(***************************************************************************)
InRange(l, site, a) == 0 <= site.cell[a] /\ site.cell[a] < l.shape[a]

CanonicalSites(l) ==
    {Site(<<x, y, z>>, atom) :
        x \in 0 .. l.shape[1] - 1, y \in 0 .. l.shape[2] - 1,
        z \in 0 .. l.shape[3] - 1, atom \in 0 .. l.natoms - 1}

\* C1: whenever inside accepts the site, index returns a value in
\* [0, nsites), and no other site of the first image has that index.
C1_IndexBijection ==
    (call.op = "index" /\ inside(latt, call.site).some) =>
        /\ call.result.some
        /\ 0 <= call.result.val
        /\ call.result.val < latt.natoms * latt.shape[1] * latt.shape[2] * latt.shape[3]
        /\ nsites(latt) = latt.natoms * latt.shape[1] * latt.shape[2] * latt.shape[3]
        /\ \A other \in CanonicalSites(latt) :
              other # inside(latt, call.site).val => index(latt, other) # call.result

\* index has been called on a site of another periodic image, in a lattice
\* of several cells along every axis, and returned the last index
C1_Witness ==
    /\ call.op = "index"
    /\ call.result.some
    /\ call.site \notin CanonicalSites(latt)
    /\ \A a \in 1 .. 3 : latt.shape[a] >= 2
    /\ latt.natoms >= 2
    /\ call.result.val = nsites(latt) - 1

\* C2: index returns natoms * (shape.x * (shape.y * cz + cy) + cx) + atom of
\* the canonicalized site when inside accepts the site, and None when inside
\* rejects it.
C2_IndexFormula ==
    call.op = "index" =>
        LET r == inside(latt, call.site)
        IN  IF r.some
            THEN call.result =
                    Some(latt.natoms
                            * (latt.shape[1]
                                  * (latt.shape[2] * r.val.cell[3] + r.val.cell[2])
                               + r.val.cell[1])
                         + r.val.atom)
            ELSE call.result = None

\* index has returned a value to which all of cx, cy, cz and atom contribute,
\* for a site that inside had to wrap
C2_Witness ==
    /\ call.op = "index"
    /\ call.result.some
    /\ call.site.cell[1] < 0
    /\ LET r == inside(latt, call.site).val
       IN  r.cell[1] > 0 /\ r.cell[2] > 0 /\ r.cell[3] > 0 /\ r.atom > 0

\* C3: every Site inside returns has its three coordinates in [0, shape.axis)
\* and the atom of the input; on a periodic axis the coordinate returned is
\* congruent to the input coordinate modulo shape.axis, whatever its sign; and
\* a periodic axis never makes inside reject.
C3_PeriodicWrap ==
    call.op = "inside" =>
        /\ call.result.some =>
              /\ call.result.val.atom = call.site.atom
              /\ \A a \in 1 .. 3 :
                    /\ 0 <= call.result.val.cell[a]
                    /\ call.result.val.cell[a] < latt.shape[a]
                    /\ latt.pbc[a] =>
                          \E q \in -(MaxDim + 2) .. (MaxDim + 2) :
                              call.site.cell[a]
                                  = call.result.val.cell[a] + q * latt.shape[a]
        /\ (call.site.atom < latt.natoms /\ \A a \in 1 .. 3 : latt.pbc[a])
              => call.result.some

\* inside has wrapped a negative coordinate and a coordinate beyond the shape
\* on periodic axes of more than one cell
C3_Witness ==
    /\ call.op = "inside"
    /\ call.result.some
    /\ latt.pbc[1] /\ latt.pbc[2]
    /\ latt.shape[1] >= 2 /\ latt.shape[2] >= 2
    /\ call.site.cell[1] = -1
    /\ call.result.val.cell[1] = latt.shape[1] - 1
    /\ call.site.cell[2] = latt.shape[2]
    /\ call.result.val.cell[2] = 0

\* C4: inside returns None whenever some axis is non-periodic and the
\* coordinate on it is outside [0, shape.axis), whatever the other axes are;
\* a site whose atom is in range and whose coordinates on the non-periodic
\* axes are in range is present; and a present site keeps the input
\* coordinate on every non-periodic axis.
C4_NonPeriodicReject ==
    call.op = "inside" =>
        /\ (\E a \in 1 .. 3 : ~latt.pbc[a] /\ ~InRange(latt, call.site, a))
              => call.result = None
        /\ (call.site.atom < latt.natoms
               /\ \A a \in 1 .. 3 : latt.pbc[a] \/ InRange(latt, call.site, a))
              => call.result.some
        /\ call.result.some =>
              \A a \in 1 .. 3 :
                  ~latt.pbc[a] => call.result.val.cell[a] = call.site.cell[a]

\* the case of the test testing_the_inside: periodic x and y out of range,
\* non-periodic z at the shape, atom in range, and inside returned None
C4_Witness ==
    /\ call.op = "inside"
    /\ latt.pbc = <<TRUE, TRUE, FALSE>>
    /\ call.site.atom < latt.natoms
    /\ call.site.cell[1] = latt.shape[1]
    /\ call.site.cell[2] = -1
    /\ call.site.cell[3] = latt.shape[3]
    /\ call.result = None

\* C5: inside, index and tgts return None for every Site whose atom is
\* natoms or more, whatever the periodicity flags and the cell are.
C5_AtomOutOfRange ==
    (call.op \in {"inside", "index", "tgts"} /\ call.site.atom >= latt.natoms)
        => call.result = None

\* tgts has been called, in a fully periodic lattice with atoms, on a cell of
\* the first image with the atom id natoms
C5_Witness ==
    /\ call.op = "tgts"
    /\ latt.natoms >= 1
    /\ call.site.atom = latt.natoms
    /\ latt.pbc = <<TRUE, TRUE, TRUE>>
    /\ \A a \in 1 .. 3 : InRange(latt, call.site, a)
    /\ call.result = None

\* the candidate target of the k-th vertex from the canonical site c
Candidate(l, c, k) ==
    Site(<<c.cell[1] + l.vertices[k].delta[1],
           c.cell[2] + l.vertices[k].delta[2],
           c.cell[3] + l.vertices[k].delta[3]>>, l.vertices[k].tgt)

\* the positions of the vertices that give the canonical site c a target
Contributing(l, c) ==
    {k \in 1 .. Len(l.vertices) :
        l.vertices[k].src = c.atom /\ inside(l, Candidate(l, c, k)).some}

\* C7: for a site inside accepts, tgts returns one pair per vertex whose src
\* is the site's atom and whose candidate (canonical cell + delta, tgt) inside
\* accepts: the canonicalized candidate with the vertex's coupling, in
\* Vertex-list order, and nothing else.  For a site inside rejects it
\* returns None.
C7_Tgts ==
    call.op = "tgts" =>
        LET r == inside(latt, call.site)
        IN  IF ~r.some THEN call.result = None
            ELSE LET K == Contributing(latt, r.val)
                     rank(k) == Cardinality({j \in K : j <= k})
                 IN  /\ call.result.some
                     /\ Len(call.result.val) = Cardinality(K)
                     /\ \A k \in K :
                           call.result.val[rank(k)]
                               = <<inside(latt, Candidate(latt, r.val, k)).val,
                                   latt.vertices[k].exch>>

\* tgts has been called on a site of another image, some vertices of the
\* site's atom were dropped for leaving the lattice or naming an atom out of
\* range, some target was wrapped, and couplings both present and absent
\* were returned
C7_Witness ==
    /\ call.op = "tgts"
    /\ call.result.some
    /\ call.site \notin CanonicalSites(latt)
    /\ LET c == inside(latt, call.site).val
           K == Contributing(latt, c)
       IN  /\ \E k \in 1 .. Len(latt.vertices) :
                 latt.vertices[k].src = c.atom /\ k \notin K
           /\ \E k \in 1 .. Len(latt.vertices) : latt.vertices[k].src # c.atom
           /\ \E k \in K : Candidate(latt, c, k) \notin CanonicalSites(latt)
           /\ \E k \in K : latt.vertices[k].exch = None
           /\ \E k \in K : latt.vertices[k].exch.some

\* C6: sites() yields the Sites of the lattice once each, in the order of
\* index: the k-th Site yielded (from 0) is a site of the first image whose
\* index is k, the iterator ends after exactly nsites() Sites (none when
\* natoms is 0 or an axis has no cell) and yields nothing after its end, and
\* a second call of sites() yields the same sequence.
C6_SitesEnumeration ==
    /\ \A k \in 1 .. Len(emitted) :
          /\ emitted[k] \in CanonicalSites(latt)
          /\ index(latt, emitted[k]) = Some(k - 1)
    /\ done => Len(emitted) = nsites(latt)
    /\ (done /\ (latt.natoms = 0 \/ \E a \in 1 .. 3 : latt.shape[a] = 0))
          => emitted = <<>>
    /\ (done /\ prev.some) => emitted = prev.val

\* a lattice of several cells along every axis and several atoms has been
\* enumerated to its end twice
C6_Witness ==
    /\ done
    /\ prev.some
    /\ Len(emitted) >= 16
    /\ \A a \in 1 .. 3 : latt.shape[a] >= 2
    /\ latt.natoms >= 2

\* the slice [lims[i], lims[i+1]) of a flat array of the Adjacency
SliceOf(flat, i) == SubSeq(flat, At(lims, i) + 1, At(lims, i + 1))

\* C8: once Adjacency::new has returned, lims has nsites + 1 entries, starts
\* at 0, is non-decreasing and ends at the length of nbhs, nbhs and exch have
\* the same length, and for every site i < nsites nbhs_of(i) and exch_of(i)
\* are the slices [lims[i], lims[i+1]) of nbhs and of exch.
C8_AdjacencyStructure ==
    pc = "done" =>
        /\ Len(lims) = nsites(latt) + 1
        /\ At(lims, 0) = 0
        /\ \A i \in 0 .. nsites(latt) - 1 : At(lims, i) <= At(lims, i + 1)
        /\ At(lims, nsites(latt)) = Len(nbhs)
        /\ Len(nbhs) = Len(exch)
        /\ (lookup.op = "nbhs_of" /\ lookup.item < nsites(latt))
              => lookup.result = Some(SliceOf(nbhs, lookup.item))
        /\ (lookup.op = "exch_of" /\ lookup.item < nsites(latt))
              => lookup.result = Some(SliceOf(exch, lookup.item))

\* the Adjacency of a lattice of several sites has been returned and the
\* neighbours of its last site, a non-empty slice that does not start at 0,
\* have been looked up
C8_Witness ==
    /\ pc = "done"
    /\ nsites(latt) >= 8
    /\ lookup.op = "nbhs_of"
    /\ lookup.item = nsites(latt) - 1
    /\ lookup.result.some
    /\ Len(lookup.result.val) >= 2
    /\ At(lims, lookup.item) > 0
    /\ \E i \in 0 .. nsites(latt) - 1 : At(lims, i) = At(lims, i + 1)

\* the i-th Site of sites(): the site of the first image whose index is i
SiteAt(l, i) == CHOOSE s \in CanonicalSites(l) : index(l, s) = Some(i)

\* C9: in the Adjacency returned, for every site index i, the neighbours of
\* i are index(t) for the targets t of tgts(site_i), in the order of tgts,
\* and the couplings of i are the couplings of those targets, 0 standing for
\* a Vertex without coupling.
C9_AdjacencyContent ==
    (pc = "done" /\ lookup.op = "none") =>
        \A i \in 0 .. nsites(latt) - 1 :
            LET t == tgts(latt, SiteAt(latt, i)).val
                nb == nbhs_of(adjacency, i)
                ex == exch_of(adjacency, i)
            IN  /\ nb.some /\ ex.some
                /\ Len(nb.val) = Len(t) /\ Len(ex.val) = Len(t)
                /\ \A k \in 1 .. Len(t) :
                      /\ Some(nb.val[k]) = index(latt, t[k][1])
                      /\ ex.val[k] = IF t[k][2] = None THEN 0 ELSE t[k][2].val

\* the Adjacency returned holds, for some site, a coupling that was given, a
\* 0 for a coupling that was not, and a non-zero coupling
C9_Witness ==
    /\ pc = "done"
    /\ lookup.op = "none"
    /\ nsites(latt) >= 8
    /\ \E i \in 0 .. nsites(latt) - 1 :
          LET t == tgts(latt, SiteAt(latt, i)).val
          IN  /\ \E k \in 1 .. Len(t) : t[k][2] = None
              /\ \E k \in 1 .. Len(t) : t[k][2].some /\ t[k][2].val # 0
    /\ \E k \in 1 .. Len(exch) : exch[k] # 0

\* the number of vertices that satisfy `test`
CountVertices(l, test(_)) == Cardinality({k \in 1 .. Len(l.vertices) : test(l.vertices[k])})

\* C10: in the Adjacency of a fully periodic lattice every site with atom a
\* has as many neighbours as there are vertices with src = a and
\* tgt < natoms, and the flat neighbour list has shape.x * shape.y * shape.z
\* times the number of vertices with src < natoms and tgt < natoms entries;
\* for shape (4,4,4), 27 atoms and the manganite vertices, lims has 1729
\* entries and nbhs has 10368.
C10_AdjacencySize ==
    (pc = "done" /\ lookup.op = "none") =>
        /\ latt.pbc = <<TRUE, TRUE, TRUE>> =>
              /\ \A i \in 0 .. nsites(latt) - 1 :
                    LET a == i % latt.natoms
                        from_a(vx) == vx.src = a /\ vx.tgt < latt.natoms
                    IN  At(lims, i + 1) - At(lims, i) = CountVertices(latt, from_a)
              /\ LET in_cell(vx) == vx.src < latt.natoms /\ vx.tgt < latt.natoms
                 IN  Len(nbhs) = latt.shape[1] * latt.shape[2] * latt.shape[3]
                                    * CountVertices(latt, in_cell)
        /\ latt = test_big_magnetite_lattice =>
              Len(lims) = 1729 /\ Len(nbhs) = 10368

\* Adjacency::new has returned for the lattice of test_big_magnetite
C10_Witness ==
    /\ pc = "done"
    /\ latt = test_big_magnetite_lattice
    /\ Len(lims) = 1729
    /\ Len(nbhs) = 10368

\* C11: in the Adjacency returned, nbhs_of(i) and exch_of(i) return None, and
\* do not fail, for every i >= Len(lims) - 1, which is nsites, and a slice
\* for every i < nsites.
C11_LookupBounds ==
    (pc = "done" /\ lookup.op # "none") =>
        /\ Len(lims) - 1 = nsites(latt)
        /\ lookup.item >= Len(lims) - 1 => lookup.result = None
        /\ lookup.item < nsites(latt) =>
              /\ lookup.result.some
              /\ lookup.result.val \in Seq(IF lookup.op = "nbhs_of"
                                           THEN 0 .. nsites(latt) - 1 ELSE Int)

\* the neighbours of index nsites, the first index out of range, have been
\* asked of the Adjacency of a lattice with sites and bonds, and were absent
C11_Witness ==
    /\ pc = "done"
    /\ nsites(latt) >= 2
    /\ Len(nbhs) > 0
    /\ lookup.op = "nbhs_of"
    /\ lookup.item = nsites(latt)
    /\ lookup.result = None

\* C12: Adjacency::new never aborts: whatever the lattice, neither the unwrap
\* of tgts(site) nor the unwrap of index(target) fails, and once it has
\* returned every site of sites() has targets and every target an index.
C12_NewNeverAborts ==
    /\ pc # "panic"
    /\ (pc = "done" /\ lookup.op = "none") =>
          \A s \in CanonicalSites(latt) :
              /\ tgts(latt, s).some
              /\ \A k \in 1 .. Len(tgts(latt, s).val) :
                    index(latt, tgts(latt, s).val[k][1]).some

\* Adjacency::new has returned for a lattice with sites where one vertex
\* names a target atom out of range, one a source atom out of range, and one
\* leads a site out of a non-periodic axis
C12_Witness ==
    /\ pc = "done"
    /\ nsites(latt) >= 2
    /\ \E k \in 1 .. Len(latt.vertices) : latt.vertices[k].tgt >= latt.natoms
    /\ \E k \in 1 .. Len(latt.vertices) : latt.vertices[k].src >= latt.natoms
    /\ \E s \in CanonicalSites(latt), k \in 1 .. Len(latt.vertices), a \in 1 .. 3 :
          /\ latt.vertices[k].src = s.atom
          /\ latt.vertices[k].tgt < latt.natoms
          /\ ~latt.pbc[a]
          /\ ~InRange(latt, Candidate(latt, s, k), a)

(***************************************************************************)
(* The energy terms.  Sums and products are the f64 ones, a sum taken in   *)
(* the order of its index from 0.0.                                        *)
(***************************************************************************)
\* f[1] + ... + f[n]
RECURSIVE SumTo(_, _)
SumTo(f, n) == IF n = 0 THEN 0 ELSE f64_add(SumTo(f, n - 1), f[n])

\* the inner product of two spins
Dot(a, b) == f64_add(f64_add(f64_mul(a.x, b.x), f64_mul(a.y, b.y)), f64_mul(a.z, b.z))

IsExchange(term) == term.kind \in {"ExchangeComponent", "ComplexExchangeComponent"}

\* the number of neighbours of site i in the Adjacency
Degree(i) == At(lims, i + 1) - At(lims, i)

\* the k-th neighbour of site i (k from 1) and its coupling, as a float
Neighbor(i, k) == At(nbhs, At(lims, i) + k - 1)

Coupling(i, k) == f64_lit(At(exch, At(lims, i) + k - 1))

\* C13: for an ExchangeComponent and for a ComplexExchangeComponent, and a
\* state of nsites spins, total_energy(state) is 0.5 times the sum over
\* all i of energy(state, i).
C13_HalfOfSum ==
    (ecall.op = "total_energy" /\ IsExchange(hamiltonian)) =>
        ecall.result =
            f64_mul(f64_lit(50),
                    SumTo([k \in 1 .. Len(state) |-> energy(hamiltonian, state, k - 1)],
                          Len(state)))

\* total_energy has been called on an exchange component over several sites
\* whose energies are not all the same, and returned a non-zero total
C13_Witness ==
    /\ ecall.op = "total_energy"
    /\ hamiltonian.kind = "ExchangeComponent"
    /\ Len(state) >= 2
    /\ ecall.result # 0
    /\ energy(hamiltonian, state, 0) # energy(hamiltonian, state, 1)

\* C14: ComplexExchangeComponent::energy(state, i) is minus the sum, over
\* the positions k of the slice of site i, of coupling[k] times the inner
\* product of state[i] and state[neighbour[k]], each bond with the coupling
\* at its own position.
C14_PerBondCoupling ==
    (ecall.op = "energy" /\ hamiltonian.kind = "ComplexExchangeComponent") =>
        ecall.result =
            f64_neg(SumTo([k \in 1 .. Degree(ecall.i) |->
                              f64_mul(Coupling(ecall.i, k),
                                      Dot(At(state, ecall.i),
                                          At(state, Neighbor(ecall.i, k))))],
                          Degree(ecall.i)))

\* energy has been called on a ComplexExchangeComponent at a site whose slice
\* is not at the head of the arrays and holds two different couplings, and
\* returned a non-zero energy
C14_Witness ==
    /\ ecall.op = "energy"
    /\ hamiltonian.kind = "ComplexExchangeComponent"
    /\ At(lims, ecall.i) > 0
    /\ \E k1, k2 \in 1 .. Degree(ecall.i) : Coupling(ecall.i, k1) # Coupling(ecall.i, k2)
    /\ ecall.result # 0

\* C15: ExchangeComponent::energy(state, i) is -exchange times the sum over
\* the neighbours j of site i, as often as the Adjacency lists them, of the
\* inner product of state[i] and state[j]; the coupling array is not read.
C15_UniformCoupling ==
    (ecall.op = "energy" /\ hamiltonian.kind = "ExchangeComponent") =>
        ecall.result =
            f64_mul(f64_neg(hamiltonian.exchange),
                    SumTo([k \in 1 .. Degree(ecall.i) |->
                              Dot(At(state, ecall.i), At(state, Neighbor(ecall.i, k)))],
                          Degree(ecall.i)))

\* energy has been called on an ExchangeComponent at a site that has a
\* neighbour listed twice and bonds with different couplings in the
\* Adjacency, and returned a non-zero energy
C15_Witness ==
    /\ ecall.op = "energy"
    /\ hamiltonian.kind = "ExchangeComponent"
    /\ \E k1, k2 \in 1 .. Degree(ecall.i) :
          k1 # k2 /\ Neighbor(ecall.i, k1) = Neighbor(ecall.i, k2)
    /\ \E k1, k2 \in 1 .. Degree(ecall.i) : Coupling(ecall.i, k1) # Coupling(ecall.i, k2)
    /\ ecall.result # 0

\* what the last call returns when asked of the term `term` instead
Recall(term) ==
    IF ecall.op = "energy" THEN energy(term, state, ecall.i)
    ELSE total_energy(term, state)

\* the term ((A, B), C) nested as (A, (B, C))
Renested(term) ==
    ComposedEnergy(term.comp1.comp1, ComposedEnergy(term.comp1.comp2, term.comp2))

IsComposed(term) == term.kind = "ComposedEnergy"

\* energy and total_energy of ComposedEnergy(A, B) are the sums of those of
\* A and B, each term keeping its own total_energy
Additive ==
    (ecall.op # "none" /\ IsComposed(hamiltonian)) =>
        ecall.result = f64_add(Recall(hamiltonian.comp1), Recall(hamiltonian.comp2))

\* C16 as stated: terms compose additively, and for three terms the nestings
\* ((A, B), C) and (A, (B, C)) give the same energy and total_energy.
C16_Associative ==
    /\ Additive
    /\ (ecall.op # "none" /\ IsComposed(hamiltonian) /\ IsComposed(hamiltonian.comp1)) =>
          ecall.result = Recall(Renested(hamiltonian))

\* a + b, or a - b, is a float: the f64 operation does not round
ExactSum(a, b) == f64_add(a, b) = f64_add_exact(a, b)

\* left is (a + b) + c, right is a + (b + c), and the two are the same value
\* if none of the four additions rounds
NestedSums(left, right, a, b, c) ==
    /\ left = f64_add(f64_add(a, b), c)
    /\ right = f64_add(a, f64_add(b, c))
    /\ (/\ ExactSum(a, b) /\ ExactSum(a + b, c)
        /\ ExactSum(b, c) /\ ExactSum(a, b + c)) => left = right

\* C16, amended: energy and total_energy of ComposedEnergy(A, B) are the f64
\* sums of those of A and B; for three terms with values a, b and c the
\* nesting ((A, B), C) gives (a + b) + c and the nesting (A, (B, C)) gives
\* a + (b + c), which are the same value whenever none of the four
\* additions rounds.
C16_AdditiveNestings ==
    /\ Additive
    /\ (ecall.op # "none" /\ IsComposed(hamiltonian) /\ IsComposed(hamiltonian.comp1)) =>
          NestedSums(ecall.result, Recall(Renested(hamiltonian)),
                     Recall(hamiltonian.comp1.comp1), Recall(hamiltonian.comp1.comp2),
                     Recall(hamiltonian.comp2))

\* total_energy has been called on ((A, B), C), three terms of two kinds with
\* three non-zero totals, not all the same, that add without rounding
C16_Witness ==
    /\ ecall.op = "total_energy"
    /\ IsComposed(hamiltonian)
    /\ IsComposed(hamiltonian.comp1)
    /\ hamiltonian.comp1.comp1.kind # hamiltonian.comp2.kind
    /\ Recall(hamiltonian.comp1.comp1) # 0
    /\ Recall(hamiltonian.comp1.comp2) # 0
    /\ Recall(hamiltonian.comp2) # 0
    /\ Recall(hamiltonian.comp1.comp1) # Recall(hamiltonian.comp1.comp2)
    /\ ExactSum(Recall(hamiltonian.comp1.comp1), Recall(hamiltonian.comp1.comp2))
    /\ ecall.result = Recall(Renested(hamiltonian))

\* a and b agree within the relative tolerance 2^-(MantissaBits - 4) of b
Close(a, b) == Abs(a - b) * 2 ^ (MantissaBits - 4) <= Abs(b)

\* r points the way s does: no component has changed sign and the scalar
\* product is positive
SameDirection(r, s) ==
    /\ r.x * s.x >= 0 /\ r.y * s.y >= 0 /\ r.z * s.z >= 0
    /\ r.x * s.x + r.y * s.y + r.z * s.z > 0

\* C17: for a spin s of nonzero norm and a magnitude m > 0, s.with_norm(m)
\* has norm m (within tolerance) and the direction of s; and every spin i of
\* State::rand_with_norms(size, norms) has norm norms[i].
C17_MagnitudePreserved ==
    /\ (scall.op = "with_norm" /\ Spin_norm(scall.self) # 0 /\ scall.norm > 0)
           => /\ Close(Spin_norm(scall.result), scall.norm)
              /\ SameDirection(scall.result, scall.self)
    /\ (norms # <<>>)
           => \A k \in 1 .. Len(state) : Close(Spin_norm(state[k]), norms[k])

\* the orders the spins of a state of n spins can be put in
Perms(n) == {p \in [1 .. n -> 1 .. n] : \A a, b \in 1 .. n : p[a] = p[b] => a = b}

Permuted(st, p) == [k \in 1 .. Len(st) |-> st[p[k]]]

\* the components of the spin s
Triple(s) == <<s.x, s.y, s.z>>

\* the exact sum of component c of the first k spins
RECURSIVE VecSum(_, _, _)
VecSum(st, c, k) == IF k = 0 THEN 0 ELSE VecSum(st, c, k - 1) + Triple(st[k])[c]

\* no sum of the first k spins, k = 1 .. Len(st), needs rounding
Exact(st) == \A k \in 1 .. Len(st), c \in 1 .. 3 : IsF64(VecSum(st, c, k))

\* the sums of the first k spins, every addition rounded
RECURSIVE Accumulated(_, _)
Accumulated(st, k) ==
    IF k = 0 THEN <<0, 0, 0>>
    ELSE [c \in 1 .. 3 |-> f64_add(Accumulated(st, k - 1)[c], Triple(st[k])[c])]

\* the sum of the absolute values of component c of the first k spins
RECURSIVE AbsSum(_, _, _)
AbsSum(st, c, k) == IF k = 0 THEN 0 ELSE AbsSum(st, c, k - 1) + Abs(Triple(st[k])[c])

\* the triples a and b, two sums of the spins of st, differ by rounding only:
\* in each component by at most Len(st) * 2^-(MantissaBits - 1) times the sum
\* of the absolute values
SameUpToRounding(a, b, st) ==
    \A c \in 1 .. 3 :
        Abs(a[c] - b[c]) * 2 ^ (MantissaBits - 1) <= Len(st) * AbsSum(st, c, Len(st))

\* r is the Euclidean norm of the triple m, up to rounding
IsNormOf(r, m) ==
    Abs(r * r - (m[1] * m[1] + m[2] * m[2] + m[3] * m[3]))
        <= (m[1] * m[1] + m[2] * m[2] + m[3] * m[3]) \div 2 ^ (MantissaBits - 4)
               + 2 ^ (2 * FracBits - 4)

\* C18 as stated: mag() is the component-wise sum of the spins, the same for
\* every permutation of the state, (0,0,0) for the empty state; mag_len() is
\* the Euclidean norm of mag(); neither modifies the state.
C18_OrderIndependent ==
    /\ obs.op # "none" => state = obs.state
    /\ obs.op = "mag"
           => /\ obs.result = Accumulated(obs.state, Len(obs.state))
              /\ obs.state = <<>> => obs.result = <<0, 0, 0>>
              /\ \A p \in Perms(Len(obs.state)) :
                     mag(Permuted(obs.state, p)) = obs.result
    /\ obs.op = "mag_len" => IsNormOf(obs.result, mag(obs.state))

\* C18, amended: mag() is the component-wise sum of the spins accumulated in
\* state order with f64 additions; a permutation of the state changes it by
\* rounding only, and not at all when no partial sum rounds in either order,
\* mag() then being the exact vector sum; the empty state gives (0,0,0);
\* mag_len() is the Euclidean norm of mag(); neither modifies the state.
C18_SumInStateOrder ==
    /\ obs.op # "none" => state = obs.state
    /\ obs.op = "mag"
           => /\ obs.result = Accumulated(obs.state, Len(obs.state))
              /\ obs.state = <<>> => obs.result = <<0, 0, 0>>
              /\ Exact(obs.state)
                     => obs.result = [c \in 1 .. 3 |-> VecSum(obs.state, c, Len(obs.state))]
              /\ \A p \in Perms(Len(obs.state)) :
                     /\ SameUpToRounding(mag(Permuted(obs.state, p)), obs.result,
                                         obs.state)
                     /\ (Exact(obs.state) /\ Exact(Permuted(obs.state, p)))
                            => mag(Permuted(obs.state, p)) = obs.result
    /\ obs.op = "mag_len" => IsNormOf(obs.result, mag(obs.state))

\* mag() has summed spins that differ, no sum rounded, and summing them the
\* other way round rounds
C18_Witness ==
    /\ obs.op = "mag" /\ Len(obs.state) >= 2 /\ obs.state[1] # obs.state[2]
    /\ Exact(obs.state) /\ obs.result # <<0, 0, 0>>
    /\ \E p \in Perms(Len(obs.state)) : mag(Permuted(obs.state, p)) # obs.result

\* t is the f64 nearest to a - b, and a - b itself when that is an f64
IsDifference(t, a, b) ==
    /\ Abs(t - (a - b)) * 2 ^ MantissaBits <= Abs(a - b)
    /\ IsF64(a - b) => t = a - b

\* what C20 says of temp and step, and of any call: temp returns the
\* temperature, temp and step leave it as it was, no call raises it
TempAndStepKeep ==
    /\ tcall.op = "temp" => (tcall.result = tcall.before /\ temperature = tcall.before)
    /\ tcall.op = "step" => temperature = tcall.before
    /\ tcall.op # "none" => temperature <= tcall.before

Exited == driver.pc = "exit"

\* the schedule of main: floor 10.0, increment 2.5, at its start 100.0
MainSchedule ==
    /\ driver.floor = f64_lit(1000) /\ driver.delta = f64_lit(250)
    /\ driver.pc = "sweep" /\ driver.k = 0 /\ temperature = f64_lit(10000)

\* cool is about to be called with an increment of at most 2^-MantissaBits
\* times the temperature, which the subtraction can round away
Negligible ==
    driver.pc = "cool" /\ driver.delta * 2 ^ MantissaBits <= Abs(temperature)

Stepped == tcall.op = "step" /\ driver.pc = "free" /\ driver.k = 1

\* C21: in step, a proposal with delta = energy(state_with_proposal, i) -
\* energy(state, i) <= 0 is always accepted, one with delta > 0 exactly when
\* the uniform draw u is below exp(-delta / temperature); an accepted
\* proposal replaces the spin at site i only, a rejected one leaves the state
\* as it was.
C21_AcceptanceRule ==
    Stepped =>
        \A k \in 1 .. Len(trace) :
            /\ trace[k].delta =
                   f64_sub(energy(hamiltonian,
                                  [trace[k].before EXCEPT ![trace[k].site + 1] =
                                                              trace[k].proposal],
                                  trace[k].site),
                           energy(hamiltonian, trace[k].before, trace[k].site))
            /\ trace[k].u >= 0 /\ trace[k].u < f64_lit(100)
            /\ trace[k].delta <= 0 => trace[k].accepted
            /\ trace[k].delta > 0
                   => (trace[k].accepted
                           <=> trace[k].u < f64_exp(f64_div(-trace[k].delta, tcall.before)))
            /\ trace[k].accepted
                   => /\ trace[k].after[trace[k].site + 1] = trace[k].proposal
                      /\ \A j \in 1 .. Len(trace[k].before) :
                             j # trace[k].site + 1
                                 => trace[k].after[j] = trace[k].before[j]
                      /\ Len(trace[k].after) = Len(trace[k].before)
            /\ ~trace[k].accepted => trace[k].after = trace[k].before

\* a step with a rise of the energy accepted on a draw above 0.0 and a rise
\* of the energy rejected
C21_Witness ==
    /\ Stepped
    /\ \E k \in 1 .. Len(trace) :
           trace[k].delta > 0 /\ trace[k].accepted /\ trace[k].u > 0
    /\ \E k \in 1 .. Len(trace) : trace[k].delta > 0 /\ ~trace[k].accepted

\* C22: one call of step makes exactly as many proposals as the state has
\* sites and visits each site exactly once; the state it returns has the
\* length of the state it was given.
C22_SweepCadence ==
    Stepped =>
        /\ Len(trace) = nsites(latt)
        /\ Len(trace) = Len(trace[1].before)
        /\ \A i \in 0 .. nsites(latt) - 1 :
               Cardinality({k \in 1 .. Len(trace) : trace[k].site = i}) = 1
        /\ Len(state) = Len(trace[1].before)

\* a sweep of two sites whose last site has taken a new spin
C22_Witness ==
    /\ Stepped
    /\ Len(state) = 2
    /\ trace[Len(trace)].site = 1
    /\ trace[Len(trace)].accepted
    /\ state[2] # trace[1].before[2]

\* the delta of proposal p at site i on state st, from the local energies
local_delta(st, i, p) ==
    f64_sub(energy(hamiltonian, [st EXCEPT ![i + 1] = p], i),
            energy(hamiltonian, st, i))

\* C23: within a sweep the site updates are applied in visitation order, and
\* the delta of every later proposal is computed on the state that already
\* holds every earlier accepted proposal of the sweep, never on the state the
\* sweep started from.
C23_SequentialConsistency ==
    Stepped =>
        /\ \A k \in 1 .. Len(trace) :
               /\ trace[k].site = k - 1
               /\ k > 1 => trace[k].before = trace[k - 1].after
               /\ \A j \in 1 .. k - 1 :
                      trace[j].accepted
                          => trace[k].before[trace[j].site + 1] = trace[j].proposal
               /\ trace[k].delta = local_delta(trace[k].before, trace[k].site,
                                               trace[k].proposal)
        /\ state = trace[Len(trace)].after

\* a sweep whose first proposal was accepted and whose second proposal has a
\* delta that differs from the one the start state would give, with the
\* opposite decision
C23_Witness ==
    /\ Stepped
    /\ Len(trace) = 2
    /\ trace[1].accepted
    /\ trace[1].after # trace[1].before
    /\ trace[2].delta # local_delta(trace[1].before, trace[2].site, trace[2].proposal)
    /\ trace[2].delta > 0
    /\ local_delta(trace[1].before, trace[2].site, trace[2].proposal) <= 0
    /\ ~trace[2].accepted

\* the magnitude main's spins assigns to an atom id
assigned(atom) == IF atom \in {2, 5, 14, 15, 17, 21, 22, 23} THEN f64_lit(200) ELSE f64_lit(250)

\* C24: the driver's per-site magnitude mapping aborts at a site whose atom
\* id has no assigned magnitude instead of producing a value; on the
\* configured magnetite lattice (natoms 24, shape (5, 5, 5)) it never aborts
\* and produces exactly nsites = 24 * 5 * 5 * 5 magnitudes, one per site in
\* the order of sites().
C24_AbortBoundary ==
    /\ driver.pc = "aborted" /\ driver.k = 2
           => /\ Len(emitted) = Len(norms) + 1
              /\ emitted[Len(emitted)].atom \notin 0 .. 23
    /\ driver.pc = "aborted" /\ driver.k = 1
           => emitted[Len(emitted)].atom \notin 0 .. 26
    /\ driver.k = 2
           => \A k \in 1 .. Len(norms) :
                  /\ emitted[k].atom \in 0 .. 23
                  /\ norms[k] = assigned(emitted[k].atom)
                  /\ index(latt, emitted[k]) = Some(k - 1)
    /\ driver.pc = "collected"
           => /\ Len(norms) = nsites(latt)
              /\ Len(emitted) = nsites(latt)
              /\ nsites(latt) = 0 \/ latt.natoms <= 24
    /\ latt = main_lattice
           => /\ driver.pc # "aborted"
              /\ driver.pc = "collected" => Len(norms) = 24 * 5 * 5 * 5

\* the configured run with its 3000 magnitudes collected
C24_Witness ==
    /\ latt = main_lattice
    /\ driver.pc = "collected"
    /\ Len(norms) = 3000
    /\ norms[3] = f64_lit(200)
    /\ norms[2999] = f64_lit(200)
    /\ norms[25] = f64_lit(250)

\* the Vertex of the same bond seen from its other end
opposite(vx) ==
    Vertex(vx.tgt, vx.src, <<-vx.delta[1], -vx.delta[2], -vx.delta[3]>>, vx.exch)

\* how many times a table holds a Vertex
occurrences(table, vx) == Cardinality({k \in 1 .. Len(table) : table[k] = vx})

\* every Vertex of the table has its opposite, as many times
SymmetricList(table) ==
    \A k \in 1 .. Len(table) :
        occurrences(table, opposite(table[k])) = occurrences(table, table[k])

\* C25: every built-in bond-template table represents each bond
\* symmetrically: for every Vertex (src, tgt, delta, coupling) of a table,
\* the same table holds the opposite Vertex (tgt, src, -delta) with the same
\* coupling, the same number of times.
C25_TablesSymmetric ==
    lookup.op = "vertex"
        => occurrences(call.result.val, opposite(lookup.result.val))
               = occurrences(call.result.val, lookup.result.val)

\* how many times site i's slice of the Adjacency holds j with coupling c
bonds_between(i, j, c) ==
    Cardinality({k \in lims[i + 1] + 1 .. lims[i + 2] : nbhs[k] = j /\ exch[k] = c})

\* the couplings of the Adjacency
couplings == {exch[k] : k \in 1 .. Len(exch)}

\* C26: if the vertex list is symmetric, then for every pbc combination and
\* every shape the Adjacency built is symmetric as a multiset: j occurs with
\* coupling c in site i's slice as many times as i occurs with coupling c in
\* site j's slice.
C26_AdjacencySymmetric ==
    pc = "done" /\ SymmetricList(latt.vertices)
        => \A i \in 0 .. nsites(latt) - 1, j \in 0 .. nsites(latt) - 1 :
               \A c \in couplings : bonds_between(i, j, c) = bonds_between(j, i, c)

\* a symmetric list on a periodic axis of two cells: two sites that hold each
\* other twice, the two periodic images being one site
C26_Witness ==
    /\ pc = "done"
    /\ SymmetricList(latt.vertices)
    /\ \E a \in 1 .. 3 : latt.pbc[a] /\ latt.shape[a] = 2
    /\ \E i \in 0 .. nsites(latt) - 1, j \in 0 .. nsites(latt) - 1 :
           /\ i # j
           /\ \E c \in couplings : bonds_between(i, j, c) >= 2

\* the squared length of a spin, exactly
norm2(s) == s.x * s.x + s.y * s.y + s.z * s.z

\* the replaced spin and the new one have the same magnitude
SameMagnitude(a) == norm2(a.proposal) = norm2(At(a.before, a.site))

\* the two states differ in the spin of site a.site only
DifferAt(a) ==
    /\ Len(a.after) = Len(a.before)
    /\ \A k \in 1 .. Len(a.before) : k # a.site + 1 => a.after[k] = a.before[k]

IsQuarters(c) == c % 2 ^ (FracBits - 2) = 0

quarters(c) == c \div 2 ^ (FracBits - 2)

\* the scalar product of two spins of whole quarters, exactly, in sixteenths
dot16(a, b) ==
    quarters(a.x) * quarters(b.x) + quarters(a.y) * quarters(b.y)
        + quarters(a.z) * quarters(b.z)

\* the coupling of position k of the flat arrays for the term h, in quarters
coupling4(h, k) ==
    IF h.kind = "ExchangeComponent" THEN quarters(h.exchange)
    ELSE quarters(f64_lit(h.adjacency.exch[k]))

\* the energy of site i in the state st, exactly, in 64ths: minus the sum
\* over the slice of i of coupling * (st[i] . st[neighbour])
RECURSIVE exact_from(_, _, _, _)
exact_from(h, st, i, k) ==
    IF k > h.adjacency.lims[i + 2] THEN 0
    ELSE exact_from(h, st, i, k + 1)
             - coupling4(h, k) * dot16(At(st, i), At(st, h.adjacency.nbhs[k]))

exact_energy(h, st, i) == exact_from(h, st, i, h.adjacency.lims[i + 1] + 1)

\* twice the total energy of st, exactly, in 64ths: the sum over the sites
RECURSIVE exact_sum(_, _, _)
exact_sum(h, st, i) ==
    IF i >= Len(st) THEN 0 ELSE exact_energy(h, st, i) + exact_sum(h, st, i + 1)

\* the spins and couplings are whole quarters, so that the exact values above
\* are the energies
InQuarters(h, st) ==
    /\ \A k \in 1 .. Len(st) :
           IsQuarters(st[k].x) /\ IsQuarters(st[k].y) /\ IsQuarters(st[k].z)
    /\ h.kind = "ExchangeComponent" => IsQuarters(h.exchange)
    /\ h.kind = "ComplexExchangeComponent"
           => \A k \in 1 .. Len(h.adjacency.exch) : IsQuarters(f64_lit(h.adjacency.exch[k]))

\* no operation of energy and total_energy on st has rounded: the f64
\* energies and the f64 total are the exact ones
Unrounded(h, st) ==
    /\ \A i \in 0 .. Len(st) - 1 :
           energy(h, st, i) * 64 = exact_energy(h, st, i) * 2 ^ FracBits
    /\ total_energy(h, st) * 128 = exact_sum(h, st, 0) * 2 ^ FracBits

\* the sum of the absolute values of the energies of the sites of st
RECURSIVE abs_energies(_, _, _)
abs_energies(h, st, i) ==
    IF i >= Len(st) THEN 0 ELSE Abs(energy(h, st, i)) + abs_energies(h, st, i + 1)

slice_of(i) == lims[i + 1] + 1 .. lims[i + 2]

\* C28: every entry of the Adjacency's flat neighbor list is a site index in
\* [0, nsites); hence for a state of length nsites, energy(state, i) for
\* every i < nsites and total_energy(state) of both exchange components read
\* only in-range state and adjacency entries and never abort.
C28_ReadsInRange ==
    /\ pc = "done"
           => /\ \A k \in 1 .. Len(nbhs) : nbhs[k] >= 0 /\ nbhs[k] < nsites(latt)
              /\ Len(lims) = nsites(latt) + 1
    /\ (ecall.op = "energy" /\ Len(state) = nsites(latt) /\ ecall.i < nsites(latt))
           => /\ ecall.result.some
              /\ slice_of(ecall.i) \subseteq 1 .. Len(nbhs)
              /\ slice_of(ecall.i) \subseteq 1 .. Len(exch)
              /\ \A k \in slice_of(ecall.i) : nbhs[k] + 1 \in 1 .. Len(state)
    /\ (ecall.op = "total_energy" /\ Len(state) = nsites(latt))
           => ecall.result.some

\* energy has returned for the last site of a state of several sites, one of
\* its neighbours being the last site itself and another the first
C28_Witness ==
    /\ ecall.op = "energy"
    /\ Len(state) = nsites(latt)
    /\ nsites(latt) >= 3
    /\ ecall.i = nsites(latt) - 1
    /\ ecall.result.some
    /\ \E k \in slice_of(ecall.i) : nbhs[k] = nsites(latt) - 1
    /\ \E k \in slice_of(ecall.i) : nbhs[k] = 0

\* the multiples of the shape a cell is translated by
Multiples == -2 .. 2

\* the periodic images of a site: its cell translated by a multiple of
\* shape.axis along each periodic axis
Images(l, site) ==
    {Site(<<site.cell[1] + (IF l.pbc[1] THEN m[1] * l.shape[1] ELSE 0),
            site.cell[2] + (IF l.pbc[2] THEN m[2] * l.shape[2] ELSE 0),
            site.cell[3] + (IF l.pbc[3] THEN m[3] * l.shape[3] ELSE 0)>>,
          site.atom) : m \in Triples(Multiples)}

\* C29: for every site s accepted by inside, inside(inside(s)) = inside(s)
\* and index(inside(s)) = index(s); and translating the cell of s by any
\* integer multiple of shape.axis along a periodic axis gives a site with the
\* same inside result and the same index.
C29_IdempotentAndImageInvariant ==
    /\ (call.op = "inside" /\ call.result.some)
           => /\ inside(latt, call.result.val) = call.result
              /\ index(latt, call.result.val) = index(latt, call.site)
              /\ \A t \in Images(latt, call.site) : inside(latt, t) = call.result
    /\ (call.op = "index" /\ call.result.some)
           => /\ index(latt, inside(latt, call.site).val) = call.result
              /\ \A t \in Images(latt, call.site) : index(latt, t) = call.result

\* inside has wrapped a site of the image before the first on two periodic
\* axes of two cells: the site returned is another site, and its images two
\* cells further and four cells back give it too
C29_Witness ==
    /\ call.op = "inside"
    /\ call.result.some
    /\ latt.pbc[1] /\ latt.pbc[2] /\ ~latt.pbc[3]
    /\ latt.shape[1] = 2 /\ latt.shape[2] = 2
    /\ call.site.cell[1] = -1 /\ call.site.cell[2] = -1
    /\ call.result.val # call.site
    /\ Site(<<1, -5, call.site.cell[3]>>, call.site.atom) \in Images(latt, call.site)
    /\ inside(latt, Site(<<1, -5, call.site.cell[3]>>, call.site.atom)) = call.result

\* the sweeps of the first b blocks of the log
RECURSIVE sweeps_of(_, _)
sweeps_of(log, b) == IF b = 0 THEN 0 ELSE sweeps_of(log, b - 1) + log[b].sweeps

\* the cool calls of the log
cools_of(log) == Cardinality({b \in 1 .. Len(log) : log[b].cooled})

\* C30: the loop of main runs exactly 1000 step calls at each temperature and
\* calls cool(2.5) only between such blocks; starting at 100.0 it visits the
\* temperatures 100.0, 97.5, ..., 7.5 (38 blocks, 37 cool calls, 38000
\* sweeps), every sweep at a temperature > 0; it exits right after the first
\* block whose temperature is below 10.0, so that no cool is called once the
\* temperature is below the floor.
C30_Schedule ==
    /\ \A b \in 1 .. Len(driver.log) :
           /\ driver.log[b].temperature = f64_lit(10000 - 250 * (b - 1))
           /\ driver.log[b].temperature > 0
           /\ driver.log[b].sweeps >= 1 /\ driver.log[b].sweeps <= 1000
           /\ b < Len(driver.log) => driver.log[b].sweeps = 1000 /\ driver.log[b].cooled
           /\ driver.log[b].cooled
                  => driver.log[b].sweeps = 1000 /\ driver.log[b].temperature >= f64_lit(1000)
           /\ driver.log[b].temperature < f64_lit(1000) => b = Len(driver.log)
    /\ Len(driver.log) <= 38
    /\ tcall.op = "cool"
           => /\ tcall.delta = f64_lit(250)
              /\ tcall.before >= f64_lit(1000)
              /\ driver.k = 0
    /\ driver.pc \in {"test", "cool", "exit"} => driver.log[Len(driver.log)].sweeps = 1000
    /\ driver.pc = "exit"
           => /\ Len(driver.log) = 38
              /\ cools_of(driver.log) = 37
              /\ sweeps_of(driver.log, Len(driver.log)) = 38000
              /\ driver.log[38].temperature = f64_lit(750)
              /\ temperature = f64_lit(750)
              /\ driver.log[37].temperature = f64_lit(1000)

\* main has left its loop after 38 blocks
C30_Witness ==
    /\ driver.pc = "exit"
    /\ Len(driver.log) = 38
    /\ driver.log[1].temperature = f64_lit(10000)
    /\ driver.log[38].sweeps = 1000
    /\ temperature = f64_lit(750)

====
